---- MODULE Spec2Model ----
(***************************************************************************)
(* A model of the persistent Kafka lag scaler:                             *)
(*   - lag.SlidingWindow      (scaler/pkg/lag/window.go)                   *)
(*   - lag.EvaluatePersistence (scaler/pkg/lag, evaluator)                 *)
(*   - server.ExternalScalerServer and scraper.MetricsScraper              *)
(* Time is an integer count of clock units; a LagSample is a record of the *)
(* fields the window and the evaluator read.                               *)
(***************************************************************************)
EXTENDS Integers, Sequences, FiniteSets, TLC

\* ------------------------------------------------------------------ bounds
\* Last clock value the model lets time reach.
MaxTime == 3
\* Largest number of samples passed to one Add call.
MaxBatch == 2
\* Largest number of samples the window is let to hold (calls that would
\* exceed it are not made).
MaxWin == 3
\* Where a holder of snapshots is modelled: the last clock value, and the
\* largest number of samples the window and a snapshot are let to hold.
MaxSnapTime == 2
MaxSnapLen == 2
\* Longest input of an EvaluatePersistence call.
MaxEvalLen == 3
\* Goroutines calling the window concurrently: the Add calls each writer
\* makes, and the last clock value in those runs.
AddsPerAdder == 2
MaxConcTime == 2
\* The last clock value in the runs of the whole service.
MaxSvcTime == 3
\* The last clock value in the runs of a scraper that keeps up with its ticker.
MaxLiveTime == 3

\* Values of the model's inputs.
WindowSizes == {1, 2}
SamplingIntervals == {1}
Timestamps == 0..MaxTime
WinPartitions == {0}
WinLags == {0}
\* The values a holder of a snapshot may write into a sample's Lag.
WrittenLags == {0, 1}

VARIABLES
  now,             \* the wall clock, what time.Now() returns
  windowDuration,  \* SlidingWindow.windowDuration
  samples,         \* SlidingWindow.samples
  lastOp,          \* the operation that returned last
  lastBatch,       \* the argument of the Add call that returned last
  snap,            \* the slice the last Snapshot() returned, as its caller holds it
  snapFresh,       \* no Add and no change of snap since that Snapshot()
  lenRes,          \* what the last Len() returned
  lenFresh,        \* no Add since that Len()
  everAdded,       \* some Add call has been made on the window
  evIn,            \* the arguments of a call of EvaluatePersistence
  evOut,           \* what the call returned (NoResult before it returns)
  mu,              \* SlidingWindow.mu: who holds the lock, who the read lock
  pc,              \* where each goroutine calling the window stands
  calls,           \* the calls each goroutine has completed
  arg,             \* the samples argument of each goroutine's Add in progress
  loaded,          \* the w.samples each Add in progress read for its append
  out,             \* what each reader's last Snapshot() and Len() returned
  contributed,     \* every sample passed to an Add so far
  lastCommitted,   \* the window's samples as the last completed Add left them
  config,          \* ExternalScalerServer.config: the thresholds it evaluates with
  resp,            \* what the last step returned to an RPC's caller, if it did
  tickPending,     \* the scraper has a fetch to make (its start, or ticker.C)
  stream,          \* the StreamIsActive call: open or not, its ticker, its sends
  backlog,         \* the consumer group's backlog: "lagging" or "drained"
  fetchIn,         \* what a call of FetchLag meets: the clock and the broker's replies
  fetchOut,        \* what that call returned (NoResult before it returns)
  scr,             \* the goroutine in MetricsScraper.Run: where it stands, its fetches
  cancelled,       \* main's shutdown goroutine has called cancel() and GracefulStop()
  clientGone,      \* the stream's client has closed it: stream.Context() is done
  cfgIn,           \* what a call of ParseFromMetadata is given: the metadata, the environment
  cfgOut           \* what that call returned (NoResult before it returns)

winVars == <<now, windowDuration, samples, lastOp, lastBatch>>
snapVars == <<snap, snapFresh, lenRes, lenFresh, everAdded>>
evalVars == <<evIn, evOut>>
concVars == <<mu, pc, calls, arg, loaded, out, contributed, lastCommitted>>
svcVars == <<config, resp, tickPending, stream, backlog>>
cfgVars == <<cfgIn, cfgOut>>
mainVars == <<fetchIn, fetchOut, scr, cancelled, clientGone, cfgVars>>
vars == <<winVars, snapVars, evalVars, concVars, svcVars, mainVars>>

\* ------------------------------------------------------------- LagSample
LagSample(t, p, l) == [Timestamp |-> t, Partition |-> p, Lag |-> l]

WinSamples == {LagSample(t, p, l) : t \in Timestamps, p \in WinPartitions, l \in WinLags}

\* All sequences over S of length at most n.
SeqsUpTo(S, n) == UNION {[1..k -> S] : k \in 0..n}

Batches == SeqsUpTo(WinSamples, MaxBatch)

\* --------------------------------------------------------- SlidingWindow
\* NewSlidingWindow: the window duration of a new (empty) window.
NewSlidingWindow(windowSize, samplingInterval) == windowSize * samplingInterval

\* time.Time.Before
Before(t, u) == t < u

\* The loop of evict: the index of the first sample, counting from 0, that
\* is not before the cutoff.
RECURSIVE evictScan(_, _, _)
evictScan(s, cutoff, i) ==
  IF i < Len(s) /\ Before(s[i + 1].Timestamp, cutoff)
  THEN evictScan(s, cutoff, i + 1)
  ELSE i

\* evict with an `if` for the `for`: drops the first sample only.
evictFirstOnly(s, t, wd) ==
  IF s # <<>> /\ Before(s[1].Timestamp, t - wd) THEN Tail(s) ELSE s

\* evict that drops every expired sample, not only the expired prefix.
evictEveryExpired(s, t, wd) ==
  SelectSeq(s, LAMBDA x : ~Before(x.Timestamp, t - wd))

\* An eviction that also drops the samples exactly one window old.
evictAtCutoff(s, t, wd) ==
  LET cutoff == t - wd
      gone == {i \in 1..Len(s) : \A j \in 1..i : s[j].Timestamp <= cutoff}
  IN SubSeq(s, Cardinality(gone) + 1, Len(s))

\* An eviction that drops nothing.
evictNothing(s, t, wd) == s

\* SlidingWindow.evict at clock value t: the samples left.
evict(s, t, wd) ==
  LET cutoff == t - wd
      i == evictScan(s, cutoff, 0)
  IN IF i > 0 THEN SubSeq(s, i + 1, Len(s)) ELSE s

\* Add that evicts before it appends.
AddEvictsFirst(s, batch, t, wd) == evict(s, t, wd) \o batch

\* An Add that never evicts.
AddWithoutEvict(s, batch, t, wd) == s \o batch

\* SlidingWindow.Add: append, then evict; the samples left.
AddResult(s, batch, t, wd) == evict(s \o batch, t, wd)

\* Snapshot that returns the window's own slice.
SnapshotShared(s) == [ref |-> "window", data |-> s]

\* SlidingWindow.Snapshot: a new slice (ref "copy": its own backing array)
\* holding the samples.
SnapshotCopy(s) == [ref |-> "copy", data |-> s]

\* Len that reports one more than it holds.
WindowLenOffByOne(s) == Len(s) + 1

\* SlidingWindow.Len
WindowLen(s) == Len(s)


\* ---------------------------------------------------- EvaluatePersistence
\* time.Time.After
After(t, u) == t > u

\* byPartition[p]: the samples of partition p, in input order.
byPartition(in, p) == SelectSeq(in, LAMBDA x : x.Partition = p)

\* The keys of byPartition and latestByPartition.
PartitionsOf(in) == {in[i].Partition : i \in 1..Len(in)}

\* The loop that fills latestByPartition, for one partition: a sample
\* replaces the one kept only if its timestamp is after it.
RECURSIVE latestScan(_, _, _)
latestScan(ps, i, cur) ==
  IF i > Len(ps) THEN cur
  ELSE latestScan(ps, i + 1,
                  IF After(ps[i].Timestamp, cur.Timestamp) THEN ps[i] ELSE cur)

\* The partition's last sample in input order, whatever its timestamp.
latestByPartitionLastInput(in, p) ==
  LET ps == byPartition(in, p) IN ps[Len(ps)]

latestByPartition(in, p) ==
  LET ps == byPartition(in, p) IN latestScan(ps, 2, ps[1])

RECURSIVE SumLag(_, _)
SumLag(in, P) ==
  IF P = {} THEN 0
  ELSE LET p == CHOOSE q \in P : TRUE
       IN latestByPartition(in, p).Lag + SumLag(in, P \ {p})

\* totalCurrentLag: the sum of the latest sample's lag over the partitions.
totalCurrentLag(in) == SumLag(in, PartitionsOf(in))

\* A sort that leaves the samples as they came.
SortOutcomesAsGiven(ps) == {ps}

\* What sort.Slice with less = Timestamp.Before may leave: sort.Slice is not
\* stable, so any arrangement of ps in non-decreasing timestamp order.
SortOutcomes(ps) ==
  LET n == Len(ps)
      perms == {f \in [1..n -> 1..n] : \A i, j \in 1..n : i # j => f[i] # f[j]}
      sorted == {f \in perms :
                   \A i, j \in 1..n :
                     i < j => ~Before(ps[f[j]].Timestamp, ps[f[i]].Timestamp)}
  IN {[i \in 1..n |-> ps[f[i]]] : f \in sorted}

\* The loop of hasPersistentLag from sample i on.
RECURSIVE stretchWalk(_, _, _, _, _, _)
stretchWalk(s, i, inStretch, stretchStart, threshold, sustainDuration) ==
  IF i > Len(s) THEN FALSE
  ELSE IF s[i].Lag >= threshold
       THEN LET start == IF inStretch THEN stretchStart ELSE s[i].Timestamp
            IN IF s[i].Timestamp - start >= sustainDuration
               THEN TRUE
               ELSE stretchWalk(s, i + 1, TRUE, start, threshold, sustainDuration)
       ELSE stretchWalk(s, i + 1, FALSE, stretchStart, threshold, sustainDuration)

\* The loop with a strict sustain comparison (> for >=).
RECURSIVE stretchWalkStrictSustain(_, _, _, _, _, _)
stretchWalkStrictSustain(s, i, inStretch, stretchStart, threshold, sustainDuration) ==
  IF i > Len(s) THEN FALSE
  ELSE IF s[i].Lag >= threshold
       THEN LET start == IF inStretch THEN stretchStart ELSE s[i].Timestamp
            IN IF s[i].Timestamp - start > sustainDuration
               THEN TRUE
               ELSE stretchWalkStrictSustain(s, i + 1, TRUE, start, threshold,
                                             sustainDuration)
       ELSE stretchWalkStrictSustain(s, i + 1, FALSE, stretchStart, threshold,
                                     sustainDuration)

hasPersistentLagStrictSustain(s, threshold, sustainDuration) ==
  IF Len(s) = 0 THEN FALSE
  ELSE stretchWalkStrictSustain(s, 1, FALSE, 0, threshold, sustainDuration)

\* The loop with a strict threshold comparison (> for >=).
hasPersistentLagStrictThreshold(s, threshold, sustainDuration) ==
  IF Len(s) = 0 THEN FALSE
  ELSE stretchWalk(s, 1, FALSE, 0, threshold + 1, sustainDuration)

\* The loop that keeps a stretch open across a sample below the threshold.
RECURSIVE stretchWalkBridging(_, _, _, _, _, _)
stretchWalkBridging(s, i, inStretch, stretchStart, threshold, sustainDuration) ==
  IF i > Len(s) THEN FALSE
  ELSE IF s[i].Lag >= threshold
       THEN LET start == IF inStretch THEN stretchStart ELSE s[i].Timestamp
            IN IF s[i].Timestamp - start >= sustainDuration
               THEN TRUE
               ELSE stretchWalkBridging(s, i + 1, TRUE, start, threshold,
                                        sustainDuration)
       ELSE stretchWalkBridging(s, i + 1, inStretch, stretchStart, threshold,
                                sustainDuration)

hasPersistentLagBridging(s, threshold, sustainDuration) ==
  IF Len(s) = 0 THEN FALSE
  ELSE stretchWalkBridging(s, 1, FALSE, 0, threshold, sustainDuration)

\* hasPersistentLag that counts a stretch only while it lasts: the last
\* sample must be at the threshold too.
hasPersistentLagCurrentOnly(s, threshold, sustainDuration) ==
  /\ Len(s) > 0
  /\ stretchWalk(s, 1, FALSE, 0, threshold, sustainDuration)
  /\ s[Len(s)].Lag >= threshold

\* The loop with `else if` for the second `if`: the span is looked at from
\* the second sample of a stretch on.
RECURSIVE stretchWalkFromSecond(_, _, _, _, _, _)
stretchWalkFromSecond(s, i, inStretch, stretchStart, threshold, sustainDuration) ==
  IF i > Len(s) THEN FALSE
  ELSE IF s[i].Lag >= threshold
       THEN IF ~inStretch
            THEN stretchWalkFromSecond(s, i + 1, TRUE, s[i].Timestamp,
                                       threshold, sustainDuration)
            ELSE IF s[i].Timestamp - stretchStart >= sustainDuration
                 THEN TRUE
                 ELSE stretchWalkFromSecond(s, i + 1, TRUE, stretchStart,
                                            threshold, sustainDuration)
       ELSE stretchWalkFromSecond(s, i + 1, FALSE, stretchStart, threshold,
                                  sustainDuration)

\* hasPersistentLag that wants two samples in a stretch.
hasPersistentLagFromSecond(s, threshold, sustainDuration) ==
  IF Len(s) = 0 THEN FALSE
  ELSE stretchWalkFromSecond(s, 1, FALSE, 0, threshold, sustainDuration)

\* hasPersistentLag on one partition's sorted samples.
hasPersistentLag(s, threshold, sustainDuration) ==
  IF Len(s) = 0 THEN FALSE
  ELSE stretchWalk(s, 1, FALSE, 0, threshold, sustainDuration)

\* The ways the per-partition sorts of one call may come out: a function
\* from each partition to its sorted samples.
SortChoices(in) ==
  LET P == PartitionsOf(in)
      all == UNION {SortOutcomes(byPartition(in, p)) : p \in P}
  IN {f \in [P -> all] : \A p \in P : f[p] \in SortOutcomes(byPartition(in, p))}

\* An evaluation that wants every partition persistent, not just one.
EvaluatePersistenceEveryPartition(in, threshold, sustainDuration, sorted) ==
  IF Len(in) = 0
  THEN [returned |-> TRUE, Persistent |-> FALSE, TotalCurrentLag |-> 0,
        sorted |-> sorted]
  ELSE [returned |-> TRUE,
        Persistent |-> \A p \in PartitionsOf(in) :
                         hasPersistentLag(sorted[p], threshold, sustainDuration),
        TotalCurrentLag |-> totalCurrentLag(in),
        sorted |-> sorted]

\* EvaluatePersistence, given how the sorts came out. The result carries
\* the sorted groups so that a property can speak of the stretches walked.
EvaluatePersistence(in, threshold, sustainDuration, sorted) ==
  IF Len(in) = 0
  THEN [returned |-> TRUE, Persistent |-> FALSE, TotalCurrentLag |-> 0,
        sorted |-> sorted]
  ELSE [returned |-> TRUE,
        Persistent |-> \E p \in PartitionsOf(in) :
                         hasPersistentLag(sorted[p], threshold, sustainDuration),
        TotalCurrentLag |-> totalCurrentLag(in),
        sorted |-> sorted]

\* ------------------------------------------------------------------ Init
NoSnap == [ref |-> "copy", data |-> <<>>]

InitSnap ==
  /\ snap = NoSnap
  /\ snapFresh = FALSE
  /\ lenRes = 0
  /\ lenFresh = FALSE
  /\ everAdded = FALSE

NoResult == [returned |-> FALSE]

NoCall == [samples |-> <<>>, threshold |-> 0, sustainDuration |-> 0]

InitEval ==
  /\ evIn = NoCall
  /\ evOut = NoResult

\* The state NewSlidingWindow(ws, si) leaves, for ws and si of the sets given.
InitWindow(sizes, intervals) ==
  /\ now = 0
  /\ \E ws \in sizes, si \in intervals :
       windowDuration = NewSlidingWindow(ws, si)
  /\ samples = <<>>
  /\ lastOp = "New"
  /\ lastBatch = <<>>
  /\ InitSnap

\* The goroutines of TestSlidingWindow_ConcurrentAccess: the writers, and a
\* reader that calls Snapshot and Len in a loop.
Adders == {1, 2}
NumAdders == Cardinality(Adders)
Readers == {0}
Goroutines == Adders \cup Readers

NoOut == [snapshot |-> <<>>, len |-> 0]

InitConc ==
  /\ mu = [writer |-> -1, readers |-> {}]
  /\ pc = [g \in Goroutines |-> "idle"]
  /\ calls = [g \in Adders |-> 0]
  /\ arg = [g \in Adders |-> <<>>]
  /\ loaded = [g \in Adders |-> <<>>]
  /\ out = [r \in Readers |-> NoOut]
  /\ contributed = {}
  /\ lastCommitted = <<>>

\* server.New(window, cfg) and scraper.New: nothing called yet, the scraper
\* about to make its first fetch.
NoResponse == [rpc |-> "none"]

NoStream == [open |-> FALSE, tick |-> FALSE, sent |-> <<>>]

InitService(thresholds, sustains) ==
  /\ config \in [LagThreshold : thresholds, SustainDuration : sustains]
  /\ resp = NoResponse
  /\ tickPending = TRUE
  /\ stream = NoStream
  /\ backlog = "lagging"

\* No call of FetchLag yet.
NoFetchCall == [now |-> 0, entered |-> FALSE, broker |-> "none"]

\* The scraper before `go scr.Run(ctx)` has run a statement: no fetch begun
\* (began, prev and ended are clock readings, -1 for none), none returned.
NoScraper ==
  [pc |-> "start", kind |-> "none", began |-> -1, prev |-> -1, ended |-> -1,
   failed |-> FALSE, batch |-> <<>>]

\* No call of ParseFromMetadata yet.
NoConfigCall == [metadata |-> <<>>, env |-> <<>>]

\* main before the shutdown signal: ctx is live, no stream has been closed.
InitMain ==
  /\ fetchIn = NoFetchCall
  /\ fetchOut = NoResult
  /\ scr = NoScraper
  /\ cancelled = FALSE
  /\ clientGone = FALSE
  /\ cfgIn = NoConfigCall
  /\ cfgOut = NoResult

Init ==
  /\ InitWindow(WindowSizes, SamplingIntervals)
  /\ InitEval
  /\ InitConc
  /\ InitService({1}, {1})
  /\ InitMain

\* --------------------------------------------------------------- actions
\* The clock advances.
Tick(limit) ==
  /\ now < limit
  /\ now' = now + 1
  /\ lastOp' = "Tick"
  /\ lastBatch' = <<>>
  /\ UNCHANGED <<windowDuration, samples>>

\* w.Add(batch...)
Add(batch) ==
  /\ Len(samples) + Len(batch) <= MaxWin
  /\ samples' = AddResult(samples, batch, now, windowDuration)
  /\ lastOp' = "Add"
  /\ lastBatch' = batch
  /\ snapFresh' = FALSE
  /\ lenFresh' = FALSE
  /\ everAdded' = TRUE
  /\ UNCHANGED <<now, windowDuration, snap, lenRes>>

\* snap := w.Snapshot()
Snapshot ==
  /\ snap' = SnapshotCopy(samples)
  /\ snapFresh' = TRUE
  /\ lastOp' = "Snapshot"
  /\ lastBatch' = <<>>
  /\ UNCHANGED <<now, windowDuration, samples, lenRes, lenFresh, everAdded>>

\* w.Len()
LenCall ==
  /\ lenRes' = WindowLen(samples)
  /\ lenFresh' = TRUE
  /\ lastOp' = "Len"
  /\ lastBatch' = <<>>
  /\ UNCHANGED <<now, windowDuration, samples, snap, snapFresh, everAdded>>

\* The holder of a snapshot writes through it: snap[i].Lag = l, as
\* TestSlidingWindow_SnapshotIsACopy does. The write lands in the backing
\* array the slice refers to.
SnapshotSetElement ==
  \E i \in 1..Len(snap.data), l \in WrittenLags :
    /\ l # snap.data[i].Lag
    /\ snap' = [snap EXCEPT !.data[i].Lag = l]
    /\ samples' = IF snap.ref = "window" /\ i <= Len(samples)
                  THEN [samples EXCEPT ![i].Lag = l]
                  ELSE samples

\* snap = snap[:len(snap)-1]: only the holder's slice header changes.
SnapshotTruncate ==
  /\ snap.data # <<>>
  /\ snap' = [snap EXCEPT !.data = SubSeq(@, 1, Len(@) - 1)]
  /\ samples' = samples

\* snap = append(snap, x): the slice Snapshot made is full (cap = len), so
\* the append moves the holder to a new backing array.
SnapshotAppend ==
  \E x \in WinSamples :
    /\ Len(snap.data) < MaxSnapLen
    /\ x.Timestamp = now
    /\ snap' = [ref |-> "copy", data |-> Append(snap.data, x)]
    /\ samples' = samples

MutateSnapshot ==
  /\ lastOp' = "MutateSnapshot"
  /\ lastBatch' = <<>>
  /\ snapFresh' = FALSE
  /\ \/ SnapshotSetElement
     \/ SnapshotTruncate
     \/ SnapshotAppend
  /\ UNCHANGED <<now, windowDuration, lenRes, lenFresh, everAdded>>

\* ---------------------------------------- the window alone, any Add calls
WinTick ==
  Tick(MaxTime) /\ UNCHANGED <<snapVars, evalVars, concVars, svcVars, mainVars>>

WinAdd ==
  \E batch \in Batches :
    Add(batch) /\ UNCHANGED <<evalVars, concVars, svcVars, mainVars>>

Next ==
  \/ WinTick
  \/ WinAdd

Spec == Init /\ [][Next]_vars

\* ------------------------------------ the window and a holder of snapshots
SnapSamples == {x \in WinSamples : x.Timestamp <= MaxSnapTime}

SnapTick ==
  Tick(MaxSnapTime) /\ UNCHANGED <<snapVars, evalVars, concVars, svcVars, mainVars>>

SnapAdd ==
  \E batch \in SeqsUpTo(SnapSamples, MaxSnapLen) :
    /\ Len(samples) + Len(batch) <= MaxSnapLen
    /\ Add(batch)
    /\ UNCHANGED <<evalVars, concVars, svcVars, mainVars>>

SnapSnapshot == Snapshot /\ UNCHANGED <<evalVars, concVars, svcVars, mainVars>>

SnapLen == LenCall /\ UNCHANGED <<evalVars, concVars, svcVars, mainVars>>

SnapMutate == MutateSnapshot /\ UNCHANGED <<evalVars, concVars, svcVars, mainVars>>

NextSnap ==
  \/ SnapTick
  \/ SnapAdd
  \/ SnapSnapshot
  \/ SnapLen
  \/ SnapMutate

SpecSnap == Init /\ [][NextSnap]_vars

\* --------------------------------------- EvaluatePersistence on any input
\* The values of the inputs.
EvalTimestamps == {0, 1, 2}
EvalPartitions == {0, 1}
EvalLags == {0, 1, 2}
EvalThresholds == {1}
EvalSustains == {-1, 0, 1, 2}

EvalSamples ==
  {LagSample(t, p, l) : t \in EvalTimestamps, p \in EvalPartitions, l \in EvalLags}

InitEvalCall ==
  /\ InitWindow({1}, {1})
  /\ \E in \in SeqsUpTo(EvalSamples, MaxEvalLen),
        th \in EvalThresholds, su \in EvalSustains :
       evIn = [samples |-> in, threshold |-> th, sustainDuration |-> su]
  /\ evOut = NoResult
  /\ InitConc
  /\ InitService({1}, {1})
  /\ InitMain

\* result := EvaluatePersistence(samples, threshold, sustainDuration)
Evaluate ==
  /\ ~evOut.returned
  /\ \E sorted \in SortChoices(evIn.samples) :
       evOut' = EvaluatePersistence(evIn.samples, evIn.threshold,
                                    evIn.sustainDuration, sorted)
  /\ UNCHANGED <<evIn, winVars, snapVars, concVars, svcVars, mainVars>>

NextEval == Evaluate

SpecEval == InitEvalCall /\ [][NextEval]_vars

\* ------------------------------- the window under concurrent goroutines
\* sync.RWMutex: Lock waits while the lock or a read lock is held.
CanLockUnguarded == TRUE

CanLock == mu.writer = -1 /\ mu.readers = {}

\* sync.RWMutex: RLock waits while the (write) lock is held.
CanRLockUnguarded == TRUE

CanRLock == mu.writer = -1

\* Writer g calls w.Add(sample) with a sample of its own (Partition g,
\* Lag the call's number, as the test's writers do), time-stamped now or at
\* the start of the run: w.mu.Lock() returns and the append reads w.samples.
AddLock(g) ==
  /\ pc[g] = "idle"
  /\ calls[g] < AddsPerAdder
  /\ CanLock
  /\ \E t \in {0, now} :
       LET x == LagSample(t, g, calls[g]) IN
         /\ arg' = [arg EXCEPT ![g] = <<x>>]
         /\ contributed' = contributed \cup {x}
  /\ mu' = [mu EXCEPT !.writer = g]
  /\ loaded' = [loaded EXCEPT ![g] = samples]
  /\ pc' = [pc EXCEPT ![g] = "append"]
  /\ UNCHANGED <<winVars, snapVars, evalVars, svcVars, mainVars, calls, out,
                 lastCommitted>>

\* w.samples = append(w.samples, samples...): the store.
AddAppend(g) ==
  /\ pc[g] = "append"
  /\ samples' = loaded[g] \o arg[g]
  /\ pc' = [pc EXCEPT ![g] = "evict"]
  /\ UNCHANGED <<now, windowDuration, lastOp, lastBatch, snapVars, evalVars,
                 svcVars, mainVars,
                 mu, calls, arg, loaded, out, contributed, lastCommitted>>

\* w.evict(), then the deferred w.mu.Unlock(): the Add returns.
AddEvictUnlock(g) ==
  /\ pc[g] = "evict"
  /\ samples' = evict(samples, now, windowDuration)
  /\ lastCommitted' = samples'
  /\ mu' = [mu EXCEPT !.writer = -1]
  /\ calls' = [calls EXCEPT ![g] = @ + 1]
  /\ pc' = [pc EXCEPT ![g] = "idle"]
  /\ UNCHANGED <<now, windowDuration, lastOp, lastBatch, snapVars, evalVars,
                 svcVars, mainVars,
                 arg, loaded, out, contributed>>

\* Reader r calls w.Snapshot(): w.mu.RLock() returns.
SnapshotRLock(r) ==
  /\ pc[r] = "idle"
  /\ CanRLock
  /\ mu' = [mu EXCEPT !.readers = @ \cup {r}]
  /\ pc' = [pc EXCEPT ![r] = "copy"]
  /\ UNCHANGED <<winVars, snapVars, evalVars, svcVars, mainVars, calls, arg, loaded,
                 out,
                 contributed, lastCommitted>>

\* make, copy, the deferred RUnlock: Snapshot returns.
SnapshotCopyOut(r) ==
  /\ pc[r] = "copy"
  /\ out' = [out EXCEPT ![r].snapshot = SnapshotCopy(samples).data]
  /\ mu' = [mu EXCEPT !.readers = @ \ {r}]
  /\ pc' = [pc EXCEPT ![r] = "len"]
  /\ UNCHANGED <<winVars, snapVars, evalVars, svcVars, mainVars, calls, arg, loaded,
                 contributed, lastCommitted>>

\* The reader then calls w.Len(): w.mu.RLock() returns.
LenRLock(r) ==
  /\ pc[r] = "len"
  /\ CanRLock
  /\ mu' = [mu EXCEPT !.readers = @ \cup {r}]
  /\ pc' = [pc EXCEPT ![r] = "lenread"]
  /\ UNCHANGED <<winVars, snapVars, evalVars, svcVars, mainVars, calls, arg, loaded,
                 out,
                 contributed, lastCommitted>>

\* return len(w.samples), the deferred RUnlock.
LenReturn(r) ==
  /\ pc[r] = "lenread"
  /\ out' = [out EXCEPT ![r].len = WindowLen(samples)]
  /\ mu' = [mu EXCEPT !.readers = @ \ {r}]
  /\ pc' = [pc EXCEPT ![r] = "idle"]
  /\ UNCHANGED <<winVars, snapVars, evalVars, svcVars, mainVars, calls, arg, loaded,
                 contributed,
                 lastCommitted>>

ConcTick ==
  Tick(MaxConcTime) /\ UNCHANGED <<snapVars, evalVars, concVars, svcVars, mainVars>>

NextConc ==
  \/ ConcTick
  \/ \E g \in Adders : AddLock(g)
  \/ \E g \in Adders : AddAppend(g)
  \/ \E g \in Adders : AddEvictUnlock(g)
  \/ \E r \in Readers : SnapshotRLock(r)
  \/ \E r \in Readers : SnapshotCopyOut(r)
  \/ \E r \in Readers : LenRLock(r)
  \/ \E r \in Readers : LenReturn(r)

\* A window of one sampling interval, so that samples expire within the run.
InitConcRun ==
  /\ InitWindow({1}, SamplingIntervals)
  /\ InitEval
  /\ InitConc
  /\ InitService({1}, {1})
  /\ InitMain

SpecConc == InitConcRun /\ [][NextConc]_vars

\* ------------------------------------- the service: scraper and RPC server
\* What the broker answers a fetch with: the topic's partitions in metadata
\* order (none, or partitions 0 and 1), each with its end offset and the
\* group's committed offset (-1 when the group has committed none).
SvcPartitionLists == {<<>>, <<0, 1>>}
EndOffsets == {0, 1}
CommittedOffsets == {-1, 1}
SvcThresholds == {1, 2}
SvcSustains == {1, 2}

AnswersFor(parts) ==
  {a \in [1..Len(parts) -> [partition : {parts[i] : i \in 1..Len(parts)},
                            endOffset : EndOffsets,
                            committed : CommittedOffsets]] :
     \A i \in 1..Len(parts) : a[i].partition = parts[i]}

BrokerAnswers == UNION {AnswersFor(parts) : parts \in SvcPartitionLists}

\* lagValue := endOffset - committed, a negative committed offset read as 0
\* and a negative lag as 0.
lagValue(endOffset, committed) ==
  LET c == IF committed < 0 THEN 0 ELSE committed
      l == endOffset - c
  IN IF l < 0 THEN 0 ELSE l

\* FetchLag when every request succeeds: one sample per partition, all
\* stamped with the time the fetch began.
FetchLag(t, answer) ==
  [i \in 1..Len(answer) |->
     LagSample(t, answer[i].partition,
               lagValue(answer[i].endOffset, answer[i].committed))]

\* A sampling interval has passed: the scraper's ticker fires, and the
\* ticker of an open stream. A tick not yet received is not doubled.
ServiceTick(limit) ==
  /\ Tick(limit)
  /\ tickPending' = TRUE
  /\ stream' = [stream EXCEPT !.tick = stream.open]
  /\ resp' = NoResponse
  /\ UNCHANGED <<config, backlog, snapVars, evalVars, concVars, mainVars>>

SvcTick == ServiceTick(MaxSvcTime)

\* s.window.Add(samples...) as the scraper calls it.
ScraperAdd(batch) ==
  /\ samples' = AddResult(samples, batch, now, windowDuration)
  /\ lastBatch' = batch
  /\ snapFresh' = FALSE
  /\ lenFresh' = FALSE
  /\ everAdded' = TRUE
  /\ UNCHANGED <<now, windowDuration, snap, lenRes>>

\* MetricsScraper.fetch, FetchLag succeeding with one of the answers given:
\* the samples go to the window.
ScraperFetchFrom(answers) ==
  /\ tickPending
  /\ \E answer \in answers : ScraperAdd(FetchLag(now, answer))
  /\ lastOp' = "Fetch"
  /\ tickPending' = FALSE
  /\ resp' = NoResponse
  /\ UNCHANGED <<config, stream, backlog, evalVars, concVars, mainVars>>

ScraperFetch == ScraperFetchFrom(BrokerAnswers)

\* A fetch that, FetchLag having failed, leaves its tick to be served again.
ScraperFetchErrorRetrying ==
  /\ tickPending
  /\ lastOp' = "FetchError"
  /\ lastBatch' = <<>>
  /\ resp' = NoResponse
  /\ UNCHANGED <<now, windowDuration, samples, config, tickPending, stream,
                 backlog, snapVars, evalVars, concVars, mainVars>>

\* MetricsScraper.fetch, FetchLag returning an error: logged, nothing added.
ScraperFetchError ==
  /\ tickPending
  /\ lastOp' = "FetchError"
  /\ lastBatch' = <<>>
  /\ tickPending' = FALSE
  /\ resp' = NoResponse
  /\ UNCHANGED <<now, windowDuration, samples, config, stream, backlog,
                 snapVars, evalVars, concVars, mainVars>>

\* ExternalScalerServer.evaluate: the outcomes of evaluating a snapshot of
\* the window with the configured threshold and sustain duration.
evaluate ==
  LET snapshot == SnapshotCopy(samples).data IN
    {EvaluatePersistence(snapshot, config.LagThreshold,
                         config.SustainDuration, sorted) :
       sorted \in SortChoices(snapshot)}

\* An RPC whose read of the window evicts the expired prefix.
RpcFrameEvicting ==
  /\ samples' = evict(samples, now, windowDuration)
  /\ UNCHANGED <<now, windowDuration, lastBatch, config, tickPending,
                 backlog, snapVars, evalVars, concVars, mainVars>>

\* What an RPC leaves alone besides the response.
RpcFrame ==
  UNCHANGED <<now, windowDuration, samples, lastBatch, config, tickPending,
              backlog, snapVars, evalVars, concVars, mainVars>>

\* An IsActive that reports an empty window as active.
IsActiveWhenEmpty ==
  /\ \E result \in evaluate :
       resp' = [rpc |-> "IsActive",
                Result |-> (result.Persistent \/ samples = <<>>),
                err |-> "nil"]
  /\ lastOp' = "IsActive"
  /\ UNCHANGED stream
  /\ RpcFrame

IsActive ==
  /\ \E result \in evaluate :
       resp' = [rpc |-> "IsActive", Result |-> result.Persistent,
                err |-> "nil"]
  /\ lastOp' = "IsActive"
  /\ UNCHANGED stream
  /\ RpcFrame

\* A GetMetrics that reports the total lag whether persistent or not.
GetMetricsUnconditional ==
  /\ \E result \in evaluate :
       resp' = [rpc |-> "GetMetrics",
                MetricValues |-> <<[MetricName |-> "persistent_kafka_lag",
                                   MetricValue |-> result.TotalCurrentLag]>>,
                err |-> "nil"]
  /\ lastOp' = "GetMetrics"
  /\ UNCHANGED stream
  /\ RpcFrame

GetMetrics ==
  /\ \E result \in evaluate :
       LET metricValue == IF result.Persistent
                          THEN result.TotalCurrentLag ELSE 0
       IN resp' = [rpc |-> "GetMetrics",
                   MetricValues |-> <<[MetricName |-> "persistent_kafka_lag",
                                      MetricValue |-> metricValue]>>,
                   err |-> "nil"]
  /\ lastOp' = "GetMetrics"
  /\ UNCHANGED stream
  /\ RpcFrame

\* A GetMetricSpec that reports the default threshold, not the configured.
GetMetricSpecDefaultTarget ==
  /\ resp' = [rpc |-> "GetMetricSpec",
              MetricSpecs |-> <<[MetricName |-> "persistent_kafka_lag",
                                 TargetSize |-> 500]>>,
              err |-> "nil"]
  /\ lastOp' = "GetMetricSpec"
  /\ UNCHANGED stream
  /\ RpcFrame

GetMetricSpec ==
  /\ resp' = [rpc |-> "GetMetricSpec",
              MetricSpecs |-> <<[MetricName |-> "persistent_kafka_lag",
                                 TargetSize |-> config.LagThreshold]>>,
              err |-> "nil"]
  /\ lastOp' = "GetMetricSpec"
  /\ UNCHANGED stream
  /\ RpcFrame

\* A client calls StreamIsActive: the handler makes its ticker.
StreamOpen ==
  /\ ~stream.open
  /\ stream' = [open |-> TRUE, tick |-> FALSE, sent |-> <<>>]
  /\ lastOp' = "StreamOpen"
  /\ resp' = NoResponse
  /\ RpcFrame

\* A handler that sends a value only when it differs from the last sent.
StreamSendDeduplicating ==
  /\ stream.open
  /\ stream.tick
  /\ \E result \in evaluate :
       stream' = [stream EXCEPT
                    !.tick = FALSE,
                    !.sent = IF @ # <<>> /\ @[Len(@)] = result.Persistent
                             THEN @ ELSE Append(@, result.Persistent)]
  /\ lastOp' = "StreamSend"
  /\ resp' = NoResponse
  /\ RpcFrame

\* case <-ticker.C: evaluate, and stream.Send succeeds.
StreamSend ==
  /\ stream.open
  /\ stream.tick
  /\ \E result \in evaluate :
       stream' = [stream EXCEPT !.tick = FALSE,
                                !.sent = Append(@, result.Persistent)]
  /\ lastOp' = "StreamSend"
  /\ resp' = NoResponse
  /\ RpcFrame

\* A handler that logs a failed send and goes on to the next tick.
StreamSendErrorIgnored ==
  /\ stream.open
  /\ stream.tick
  /\ evaluate # {}
  /\ stream' = [stream EXCEPT !.tick = FALSE]
  /\ resp' = NoResponse
  /\ lastOp' = "StreamSendError"
  /\ RpcFrame

\* case <-ticker.C: evaluate, and stream.Send fails: the handler returns
\* the error.
StreamSendError ==
  /\ stream.open
  /\ stream.tick
  /\ evaluate # {}
  /\ stream' = [stream EXCEPT !.open = FALSE, !.tick = FALSE]
  /\ resp' = [rpc |-> "StreamIsActive", err |-> "error sending stream"]
  /\ lastOp' = "StreamSendError"
  /\ RpcFrame

\* case <-stream.Context().Done(): the handler returns nil.
StreamClose ==
  /\ stream.open
  /\ stream' = [stream EXCEPT !.open = FALSE, !.tick = FALSE]
  /\ resp' = [rpc |-> "StreamIsActive", err |-> "nil"]
  /\ lastOp' = "StreamClose"
  /\ RpcFrame

InitSvc ==
  /\ InitWindow(WindowSizes, SamplingIntervals)
  /\ InitEval
  /\ InitConc
  /\ InitService(SvcThresholds, SvcSustains)
  /\ InitMain

NextSvc ==
  \/ SvcTick
  \/ ScraperFetch
  \/ ScraperFetchError
  \/ IsActive
  \/ GetMetrics
  \/ GetMetricSpec
  \/ StreamOpen
  \/ StreamSend
  \/ StreamSendError
  \/ StreamClose

SpecSvc == InitSvc /\ [][NextSvc]_vars

\* ------------------------- the service while the scraper keeps up
\* The scraper makes each tick's fetch before the next tick, every fetch
\* succeeds, and the orchestrator keeps polling. While the backlog lasts,
\* partition 0 lags at or above the threshold at every fetch; once the
\* consumers have drained it, every partition is below.
LivePartitions == <<0, 1>>

LagOf(a) == lagValue(a.endOffset, a.committed)

LiveAnswers ==
  {answer \in AnswersFor(LivePartitions) :
     IF backlog = "lagging"
     THEN LagOf(answer[1]) >= config.LagThreshold
     ELSE \A i \in 1..Len(answer) : LagOf(answer[i]) < config.LagThreshold}

LiveTick == ~tickPending /\ ServiceTick(MaxLiveTime)

LiveFetch == ScraperFetchFrom(LiveAnswers)

\* The consumers drain the backlog, between a tick and its fetch, with at
\* least a window duration of the run left.
Drain ==
  /\ backlog = "lagging"
  /\ tickPending
  /\ now + windowDuration <= MaxLiveTime
  /\ backlog' = "drained"
  /\ lastOp' = "Drain"
  /\ lastBatch' = <<>>
  /\ resp' = NoResponse
  /\ UNCHANGED <<now, windowDuration, samples, config, tickPending, stream,
                 snapVars, evalVars, concVars, mainVars>>

InitLive ==
  /\ InitWindow(WindowSizes, SamplingIntervals)
  /\ InitEval
  /\ InitConc
  /\ InitService({1}, SvcSustains)
  /\ InitMain

NextLive ==
  \/ LiveTick
  \/ LiveFetch
  \/ Drain
  \/ IsActive
  \/ GetMetrics

SpecLive ==
  /\ InitLive
  /\ [][NextLive]_vars
  /\ WF_vars(LiveTick)
  /\ WF_vars(LiveFetch)
  /\ WF_vars(IsActive)
  /\ WF_vars(GetMetrics)

\* ------------------------------------ the server through its shutdown
\* The stream handler beside main's shutdown goroutine: one client, which
\* opens streams until it goes away, and one shutdown signal. The scraper
\* fetches at each tick until the signal.
MaxStopTime == 3

StopAnswers == AnswersFor(<<0>>)

\* <-sigChan: cancel() ends the context the scraper was given, and
\* GracefulStop() turns away new calls and waits for the calls in progress.
Shutdown ==
  /\ ~cancelled
  /\ cancelled' = TRUE
  /\ lastOp' = "Shutdown"
  /\ lastBatch' = <<>>
  /\ resp' = NoResponse
  /\ UNCHANGED <<now, windowDuration, samples, config, tickPending, stream,
                 backlog, snapVars, evalVars, concVars, fetchIn, fetchOut,
                 scr, clientGone, cfgVars>>

\* The client closes its stream: stream.Context() is done from here on.
ClientClose ==
  /\ stream.open
  /\ ~clientGone
  /\ clientGone' = TRUE
  /\ lastOp' = "ClientClose"
  /\ lastBatch' = <<>>
  /\ resp' = NoResponse
  /\ UNCHANGED <<now, windowDuration, samples, config, tickPending, stream,
                 backlog, snapVars, evalVars, concVars, fetchIn, fetchOut,
                 scr, cancelled, cfgVars>>

StopTick == ServiceTick(MaxStopTime)

StopFetch == ~cancelled /\ ScraperFetchFrom(StopAnswers)

\* The server takes a new StreamIsActive call until GracefulStop().
StopStreamOpen == ~cancelled /\ ~clientGone /\ StreamOpen

\* A send to a client that is still there succeeds or fails; the select of
\* the handler reads the stream's context and its own ticker, nothing else.
StopStreamSend == ~clientGone /\ StreamSend

StopStreamSendError == StreamSendError

\* case <-stream.Context().Done(), the client having closed the stream.
StopStreamReturn == clientGone /\ StreamClose

InitStop ==
  /\ InitWindow({1}, SamplingIntervals)
  /\ InitEval
  /\ InitConc
  /\ InitService({1}, {1})
  /\ InitMain

NextStop ==
  \/ StopTick
  \/ StopFetch
  \/ Shutdown
  \/ ClientClose
  \/ StopStreamOpen
  \/ StopStreamSend
  \/ StopStreamSendError
  \/ StopStreamReturn

\* The handler's goroutine is scheduled: a ready case of its select is taken.
SpecStop ==
  /\ InitStop
  /\ [][NextStop]_vars
  /\ WF_vars(StopTick)
  /\ WF_vars(StopStreamSend \/ StopStreamSendError)
  /\ WF_vars(StopStreamReturn)

\* ------------------------------------------ the scraper's goroutine
\* MetricsScraper.Run statement by statement, a fetch taking time: FetchLag
\* reads the clock when it is entered and the samples reach the window when
\* it returns, any number of intervals later. The clock is read in sampling
\* intervals since Run made its ticker.
MaxRunTime == 3

RunPartitionLists == {<<>>, <<0, 1>>}

RunAnswers == UNION {AnswersFor(parts) : parts \in RunPartitionLists}

\* A fetch that reads a clock that stands still.
fetchBeginClockStopped(kind) ==
  [scr EXCEPT !.pc = "fetching", !.kind = kind,
              !.prev = scr.began, !.began = 0]

\* s.fetch(ctx) is entered, from the statement of Run given.
fetchBegin(kind) ==
  [scr EXCEPT !.pc = "fetching", !.kind = kind,
              !.prev = scr.began, !.began = now]

\* A Run that enters its loop without the fetch before it.
RunStartWithoutFetch ==
  /\ scr.pc = "start"
  /\ scr' = [scr EXCEPT !.pc = "select"]
  /\ lastOp' = "RunStart"
  /\ lastBatch' = <<>>
  /\ resp' = NoResponse
  /\ UNCHANGED <<now, windowDuration, samples, config, tickPending, stream,
                 backlog, snapVars, evalVars, concVars, fetchIn, fetchOut,
                 cancelled, clientGone, cfgVars>>

\* Run makes its ticker and enters the fetch it makes on start.
RunStart ==
  /\ scr.pc = "start"
  /\ scr' = fetchBegin("start")
  /\ lastOp' = "RunStart"
  /\ lastBatch' = <<>>
  /\ resp' = NoResponse
  /\ UNCHANGED <<now, windowDuration, samples, config, tickPending, stream,
                 backlog, snapVars, evalVars, concVars, fetchIn, fetchOut,
                 cancelled, clientGone, cfgVars>>

\* An interval passes on Run's ticker.
RunTick == scr.pc # "start" /\ ServiceTick(MaxRunTime)

\* A loop that enters a fetch and leaves the tick in the channel.
RunServeTickKeeping ==
  /\ scr.pc = "select"
  /\ tickPending
  /\ scr' = fetchBegin("tick")
  /\ lastOp' = "ServeTick"
  /\ lastBatch' = <<>>
  /\ resp' = NoResponse
  /\ UNCHANGED <<now, windowDuration, samples, config, tickPending, stream,
                 backlog, snapVars, evalVars, concVars, fetchIn, fetchOut,
                 cancelled, clientGone, cfgVars>>

\* case <-ticker.C: the select takes the tick, whether or not ctx is done
\* as well, and the fetch is entered.
RunServeTick ==
  /\ scr.pc = "select"
  /\ tickPending
  /\ tickPending' = FALSE
  /\ scr' = fetchBegin("tick")
  /\ lastOp' = "ServeTick"
  /\ lastBatch' = <<>>
  /\ resp' = NoResponse
  /\ UNCHANGED <<now, windowDuration, samples, config, stream, backlog,
                 snapVars, evalVars, concVars, fetchIn, fetchOut, cancelled,
                 clientGone, cfgVars>>

\* case <-ctx.Done(): Run returns.
RunReturn ==
  /\ scr.pc = "select"
  /\ cancelled
  /\ scr' = [scr EXCEPT !.pc = "returned"]
  /\ lastOp' = "RunReturn"
  /\ lastBatch' = <<>>
  /\ resp' = NoResponse
  /\ UNCHANGED <<now, windowDuration, samples, config, tickPending, stream,
                 backlog, snapVars, evalVars, concVars, fetchIn, fetchOut,
                 cancelled, clientGone, cfgVars>>

\* FetchLag returns its samples, stamped with the clock it read when it was
\* entered, and fetch adds them.
RunFetchReturn ==
  /\ scr.pc = "fetching"
  /\ \E answer \in RunAnswers :
       LET batch == FetchLag(scr.began, answer) IN
         /\ ScraperAdd(batch)
         /\ scr' = [scr EXCEPT !.pc = "select", !.ended = now,
                               !.failed = FALSE, !.batch = batch]
  /\ lastOp' = "Fetch"
  /\ resp' = NoResponse
  /\ UNCHANGED <<config, tickPending, stream, backlog, evalVars, concVars,
                 fetchIn, fetchOut, cancelled, clientGone, cfgVars>>

\* FetchLag returns an error, a broker's or that of a cancelled context.
RunFetchError ==
  /\ scr.pc = "fetching"
  /\ scr' = [scr EXCEPT !.pc = "select", !.ended = now,
                        !.failed = TRUE, !.batch = <<>>]
  /\ lastOp' = "FetchError"
  /\ lastBatch' = <<>>
  /\ resp' = NoResponse
  /\ UNCHANGED <<now, windowDuration, samples, config, tickPending, stream,
                 backlog, snapVars, evalVars, concVars, fetchIn, fetchOut,
                 cancelled, clientGone, cfgVars>>

InitRun ==
  /\ InitWindow(WindowSizes, SamplingIntervals)
  /\ InitEval
  /\ InitConc
  /\ config \in [LagThreshold : {1}, SustainDuration : {1}]
  /\ resp = NoResponse
  /\ tickPending = FALSE
  /\ stream = NoStream
  /\ backlog = "lagging"
  /\ InitMain

NextRun ==
  \/ RunStart
  \/ RunTick
  \/ RunServeTick
  \/ RunReturn
  \/ RunFetchReturn
  \/ RunFetchError
  \/ Shutdown

SpecRun == InitRun /\ [][NextRun]_vars

\* ------------------------------------------------ FetchLag, request by request
\* What the broker answers the requests of one FetchLag call with: the
\* metadata request (an error, no topic, a topic error, or the partitions
\* in metadata order), ListOffsets and OffsetFetch (an error, or an entry
\* for each of the partitions asked for or for some of them only, itself an
\* error or an offset), and the coordinator lookup.
MaxFetchTime == 2

FetchPartitionLists == {<<>>, <<0, 1>>, <<1, 0>>}

PartitionIDs(partitions) == {partitions[i] : i \in 1..Len(partitions)}

MetadataReplies ==
  {[err |-> e, partitions |-> <<>>] :
     e \in {"metadata request failed", "topic not found",
            "topic metadata error"}}
  \cup {[err |-> "nil", partitions |-> ps] : ps \in FetchPartitionLists}

OffsetEntries(offsets) ==
  {[Error |-> TRUE, Offset |-> 0]}
  \cup {[Error |-> FALSE, Offset |-> o] : o \in offsets}

OffsetReplies(partitions, offsets) ==
  {[err |-> "request failed", entries |-> <<>>]}
  \cup {[err |-> "nil", entries |-> f] :
          f \in UNION {[ids -> OffsetEntries(offsets)] :
                          ids \in SUBSET PartitionIDs(partitions)}}

CoordinatorReplies == {"nil", "coordinator lookup failed"}

Brokers ==
  UNION {{[metadata |-> m, listOffsets |-> l, coordinator |-> c,
           offsetFetch |-> g] :
            l \in OffsetReplies(m.partitions, EndOffsets),
            c \in CoordinatorReplies,
            g \in OffsetReplies(m.partitions, CommittedOffsets)} :
         m \in MetadataReplies}

\* A committed offset kept as the broker reports it.
committedOffsetRaw(committed) == committed

\* committed := po.CommittedOffset; if committed < 0 { committed = 0 }
committedOffset(committed) == IF committed < 0 THEN 0 ELSE committed

\* An end offset read as 1 for a partition the response has no entry for.
endOffsetOrOne(b, p) ==
  IF p \in DOMAIN b.listOffsets.entries
  THEN b.listOffsets.entries[p].Offset
  ELSE 1

\* endOffsets[p.ID]: the end offset of the partition's entry in the
\* ListOffsets response, 0 if the response has none.
endOffsetFor(b, p) ==
  IF p \in DOMAIN b.listOffsets.entries
  THEN b.listOffsets.entries[p].Offset
  ELSE 0

\* committedOffsets[p.ID]: the committed offset of the partition's entry in
\* the OffsetFetch response, 0 if the response has none.
committedFor(b, p) ==
  IF p \in DOMAIN b.offsetFetch.entries
  THEN committedOffset(b.offsetFetch.entries[p].Offset)
  ELSE 0

\* A loop over the partitions in the order of their IDs.
FetchLagSamplesByID(t, b) ==
  LET ids == PartitionIDs(b.metadata.partitions)
      partitions == CHOOSE ps \in [1..Cardinality(ids) -> ids] :
                      \A i, j \in 1..Cardinality(ids) : i < j => ps[i] < ps[j]
  IN
    [i \in 1..Len(partitions) |->
       LET p == partitions[i]
           endOffset == endOffsetFor(b, p)
           committed == committedFor(b, p)
       IN [Timestamp |-> t, Topic |-> "topic", Partition |-> p,
           Lag |-> lagValue(endOffset, committed),
           Offset |-> committed, EndOffset |-> endOffset]]

\* The loop over the partitions in metadata order that builds the samples,
\* each with the time read when the call was entered.
FetchLagSamples(t, b) ==
  LET partitions == b.metadata.partitions IN
    [i \in 1..Len(partitions) |->
       LET p == partitions[i]
           endOffset == endOffsetFor(b, p)
           committed == committedFor(b, p)
       IN [Timestamp |-> t, Topic |-> "topic", Partition |-> p,
           Lag |-> lagValue(endOffset, committed),
           Offset |-> committed, EndOffset |-> endOffset]]

FetchFailure(e) == [returned |-> TRUE, samples |-> <<>>, err |-> e]

\* A FetchLag that reads a partition's failed committed-offset entry as an
\* offset of 0.
FetchLagCallIgnoringEntryErrors(t, b) ==
  LET listed == DOMAIN b.listOffsets.entries
      fetched == DOMAIN b.offsetFetch.entries
  IN
    IF b.metadata.err # "nil" THEN FetchFailure(b.metadata.err)
    ELSE IF b.listOffsets.err # "nil"
    THEN FetchFailure("list offsets failed")
    ELSE IF \E p \in listed : b.listOffsets.entries[p].Error
    THEN FetchFailure("offset error for partition")
    ELSE IF b.coordinator # "nil" THEN FetchFailure(b.coordinator)
    ELSE IF b.offsetFetch.err # "nil"
    THEN FetchFailure("offset fetch failed")
    ELSE [returned |-> TRUE, samples |-> FetchLagSamples(t, b),
          err |-> "nil"]

\* FetchLag entered at time t, the broker answering with b: the first
\* failure returns its error and no samples.
FetchLagCall(t, b) ==
  LET listed == DOMAIN b.listOffsets.entries
      fetched == DOMAIN b.offsetFetch.entries
  IN
    IF b.metadata.err # "nil" THEN FetchFailure(b.metadata.err)
    ELSE IF b.listOffsets.err # "nil"
    THEN FetchFailure("list offsets failed")
    ELSE IF \E p \in listed : b.listOffsets.entries[p].Error
    THEN FetchFailure("offset error for partition")
    ELSE IF b.coordinator # "nil" THEN FetchFailure(b.coordinator)
    ELSE IF b.offsetFetch.err # "nil"
    THEN FetchFailure("offset fetch failed")
    ELSE IF \E p \in fetched : b.offsetFetch.entries[p].Error
    THEN FetchFailure("committed offset error for partition")
    ELSE [returned |-> TRUE, samples |-> FetchLagSamples(t, b),
          err |-> "nil"]

\* The clock advances, before the call or while it is in progress.
FetchTick ==
  /\ ~fetchOut.returned
  /\ Tick(MaxFetchTime)
  /\ UNCHANGED <<snapVars, evalVars, concVars, svcVars, mainVars>>

\* The scraper's fetch calls FetchLag, which reads the clock.
FetchEnter ==
  /\ ~fetchIn.entered
  /\ fetchIn' = [fetchIn EXCEPT !.entered = TRUE, !.now = now]
  /\ lastOp' = "FetchEnter"
  /\ lastBatch' = <<>>
  /\ UNCHANGED <<now, windowDuration, samples, snapVars, evalVars, concVars,
                 svcVars, fetchOut, scr, cancelled, clientGone, cfgVars>>

\* FetchLag returns and fetch goes on: the samples to the window, or the
\* error to the log.
FetchReturn ==
  /\ fetchIn.entered
  /\ ~fetchOut.returned
  /\ fetchOut' = FetchLagCall(fetchIn.now, fetchIn.broker)
  /\ IF fetchOut'.err = "nil"
     THEN /\ ScraperAdd(fetchOut'.samples)
          /\ lastOp' = "Fetch"
     ELSE /\ lastOp' = "FetchError"
          /\ lastBatch' = <<>>
          /\ UNCHANGED <<now, windowDuration, samples, snapVars>>
  /\ UNCHANGED <<evalVars, concVars, svcVars, fetchIn, scr, cancelled,
                 clientGone, cfgVars>>

InitFetch ==
  /\ InitWindow(WindowSizes, SamplingIntervals)
  /\ InitEval
  /\ InitConc
  /\ InitService({1}, {1})
  /\ fetchIn \in [now : {0}, entered : {FALSE}, broker : Brokers]
  /\ fetchOut = NoResult
  /\ scr = NoScraper
  /\ cancelled = FALSE
  /\ clientGone = FALSE
  /\ cfgIn = NoConfigCall
  /\ cfgOut = NoResult

NextFetch ==
  \/ FetchTick
  \/ FetchEnter
  \/ FetchReturn

SpecFetch == InitFetch /\ [][NextFetch]_vars

\* ------------------------------------ EvaluatePersistence called twice
\* Two calls with the same arguments. The loop over the byPartition map
\* meets the partitions in an order that may differ from call to call; the
\* sort of a partition's samples, given the same slice, comes out the same.
MaxTwiceLen == 3

TwiceLags == {0, 1}

TwiceSamples ==
  {LagSample(t, p, l) : t \in EvalTimestamps, p \in EvalPartitions,
                        l \in TwiceLags}

\* The orders in which a range over the map can meet the partitions.
PartitionOrders(in) ==
  LET P == PartitionsOf(in)
      n == Cardinality(P)
  IN {o \in [1..n -> P] : \A i, j \in 1..n : i # j => o[i] # o[j]}

\* A loop that takes the verdict of the first partition it meets.
persistentWalkFirstOnly(sorted, order, i, threshold, sustainDuration) ==
  /\ i <= Len(order)
  /\ hasPersistentLag(sorted[order[i]], threshold, sustainDuration)

\* The loop over byPartition from the i-th partition met: the first
\* partition with persistent lag ends it.
RECURSIVE persistentWalk(_, _, _, _, _)
persistentWalk(sorted, order, i, threshold, sustainDuration) ==
  IF i > Len(order) THEN FALSE
  ELSE IF hasPersistentLag(sorted[order[i]], threshold, sustainDuration)
  THEN TRUE
  ELSE persistentWalk(sorted, order, i + 1, threshold, sustainDuration)

\* EvaluatePersistence, given how the sorts came out and the order in which
\* the partitions were met.
EvaluatePersistenceInOrder(in, threshold, sustainDuration, sorted, order) ==
  IF Len(in) = 0
  THEN [returned |-> TRUE, Persistent |-> FALSE, TotalCurrentLag |-> 0,
        sorted |-> sorted, order |-> order]
  ELSE [returned |-> TRUE,
        Persistent |-> persistentWalk(sorted, order, 1, threshold,
                                      sustainDuration),
        TotalCurrentLag |-> totalCurrentLag(in),
        sorted |-> sorted, order |-> order]

InitTwice ==
  /\ InitWindow({1}, {1})
  /\ evIn \in [samples : SeqsUpTo(TwiceSamples, MaxTwiceLen),
               threshold : EvalThresholds,
               sustainDuration : {1}]
  /\ evOut = NoResult
  /\ InitConc
  /\ InitService({1}, {1})
  /\ InitMain

\* The first call returns.
EvaluateFirst ==
  /\ ~evOut.returned
  /\ \E sorted \in SortChoices(evIn.samples),
        order \in PartitionOrders(evIn.samples) :
       evOut' = [returned |-> TRUE,
                 first |-> EvaluatePersistenceInOrder(
                             evIn.samples, evIn.threshold,
                             evIn.sustainDuration, sorted, order),
                 second |-> NoResult]
  /\ UNCHANGED <<evIn, winVars, snapVars, concVars, svcVars, mainVars>>

\* The second call, with the arguments of the first, returns.
EvaluateSecond ==
  /\ evOut.returned
  /\ ~evOut.second.returned
  /\ \E order \in PartitionOrders(evIn.samples) :
       evOut' = [evOut EXCEPT
                   !.second = EvaluatePersistenceInOrder(
                                evIn.samples, evIn.threshold,
                                evIn.sustainDuration, evOut.first.sorted,
                                order)]
  /\ UNCHANGED <<evIn, winVars, snapVars, concVars, svcVars, mainVars>>

NextTwice ==
  \/ EvaluateFirst
  \/ EvaluateSecond

SpecTwice == InitTwice /\ [][NextTwice]_vars

\* ------------------------------------------------ ParseFromMetadata
\* The request metadata is a map: a key is in it (ok) with its value v, or is
\* not. The environment gives every variable a value, "" when it is unset.
\* Durations are in seconds.
InMap(v) == [ok |-> TRUE, v |-> v]

NotInMap == [ok |-> FALSE, v |-> ""]

MetadataValues ==
  [bootstrapServers : {NotInMap, InMap("m:9092")},
   topic            : {NotInMap, InMap(""), InMap("orders")},
   consumerGroup    : {NotInMap, InMap("group")},
   lagThreshold     : {NotInMap, InMap(""), InMap("7")},
   sustainSeconds   : {NotInMap, InMap("0"), InMap("3")},
   samplingInterval : {NotInMap, InMap("0"), InMap("1")},
   windowSize       : {NotInMap, InMap("2")}]

EnvValues ==
  [KAFKA_BROKERS     : {"", "e:9092"},
   KAFKA_TOPIC       : {"", "env-orders"},
   KAFKA_GROUP_ID    : {"", "env-group"},
   LAG_THRESHOLD     : {"", "9"},
   SUSTAIN_SECONDS   : {"", "-1"},
   SAMPLING_INTERVAL : {"", "x"},
   WINDOW_SIZE       : {"", "4"}]

\* The decimal strings among the values above, with the integers they denote.
Numerals ==
  {<<"-1", -1>>, <<"0", 0>>, <<"1", 1>>, <<"2", 2>>, <<"3", 3>>, <<"4", 4>>,
   <<"7", 7>>, <<"9", 9>>}

\* strconv.ParseInt(v, 10, 64) and strconv.Atoi(v): the integer a decimal
\* string denotes, an error for any other string, the empty one included.
ParseInt(v) ==
  IF \E d \in Numerals : d[1] = v
  THEN [n |-> (CHOOSE d \in Numerals : d[1] = v)[2], err |-> "nil"]
  ELSE [n |-> 0, err |-> "invalid syntax"]

\* A lookup that takes a key that is in the metadata, whatever its value.
getMetadataOrEnvKeyPresent(m, e, defaultVal) ==
  IF m.ok THEN m.v
  ELSE IF e # "" THEN e
  ELSE defaultVal

\* getMetadataOrEnv, for the metadata entry m of the key and the value e of
\* the environment variable.
getMetadataOrEnv(m, e, defaultVal) ==
  IF m.ok /\ m.v # "" THEN m.v
  ELSE IF e # "" THEN e
  ELSE defaultVal

\* if v, ok := metadata[key]; ok {...} else if v := os.Getenv(envKey);
\* v != "" {...}: the number parsed from the metadata value when the key is
\* there, else from the environment variable when it is set, else the
\* default; an error when the value taken does not parse.
intOption(m, e, defaultVal, mErr, eErr) ==
  IF m.ok
  THEN IF ParseInt(m.v).err # "nil"
       THEN [n |-> 0, err |-> mErr]
       ELSE ParseInt(m.v)
  ELSE IF e # ""
  THEN IF ParseInt(e).err # "nil"
       THEN [n |-> 0, err |-> eErr]
       ELSE ParseInt(e)
  ELSE [n |-> defaultVal, err |-> "nil"]

ConfigError(e) == [returned |-> TRUE, err |-> e]

\* ParseFromMetadata: the strings, the two required ones checked, then the
\* numbers in the order of the source, the first error returned.
ParseFromMetadata(metadata, env) ==
  LET BootstrapServers ==
        getMetadataOrEnv(metadata.bootstrapServers, env.KAFKA_BROKERS,
                         "localhost:9092")
      Topic == getMetadataOrEnv(metadata.topic, env.KAFKA_TOPIC, "")
      ConsumerGroup ==
        getMetadataOrEnv(metadata.consumerGroup, env.KAFKA_GROUP_ID, "")
      LagThreshold ==
        intOption(metadata.lagThreshold, env.LAG_THRESHOLD, 500,
                  "invalid lagThreshold", "invalid LAG_THRESHOLD")
      SustainSeconds ==
        intOption(metadata.sustainSeconds, env.SUSTAIN_SECONDS, 120,
                  "invalid sustainSeconds", "invalid SUSTAIN_SECONDS")
      SamplingSeconds ==
        intOption(metadata.samplingInterval, env.SAMPLING_INTERVAL, 10,
                  "invalid samplingInterval", "invalid SAMPLING_INTERVAL")
      WindowSize ==
        intOption(metadata.windowSize, env.WINDOW_SIZE, 30,
                  "invalid windowSize", "invalid WINDOW_SIZE")
  IN IF Topic = "" THEN ConfigError("topic is required")
     ELSE IF ConsumerGroup = "" THEN ConfigError("consumerGroup is required")
     ELSE IF LagThreshold.err # "nil" THEN ConfigError(LagThreshold.err)
     ELSE IF SustainSeconds.err # "nil" THEN ConfigError(SustainSeconds.err)
     ELSE IF SamplingSeconds.err # "nil" THEN ConfigError(SamplingSeconds.err)
     ELSE IF WindowSize.err # "nil" THEN ConfigError(WindowSize.err)
     ELSE [returned |-> TRUE, err |-> "nil",
           cfg |-> [BootstrapServers |-> BootstrapServers,
                    Topic |-> Topic,
                    ConsumerGroup |-> ConsumerGroup,
                    LagThreshold |-> LagThreshold.n,
                    SustainDuration |-> SustainSeconds.n,
                    SamplingInterval |-> SamplingSeconds.n,
                    WindowSize |-> WindowSize.n]]

InitConfig ==
  /\ InitWindow({1}, {1})
  /\ InitEval
  /\ InitConc
  /\ InitService({1}, {1})
  /\ fetchIn = NoFetchCall
  /\ fetchOut = NoResult
  /\ scr = NoScraper
  /\ cancelled = FALSE
  /\ clientGone = FALSE
  /\ cfgIn \in [metadata : MetadataValues, env : EnvValues]
  /\ cfgOut = NoResult

\* cfg, err := ParseFromMetadata(metadata)
Parse ==
  /\ ~cfgOut.returned
  /\ cfgOut' = ParseFromMetadata(cfgIn.metadata, cfgIn.env)
  /\ UNCHANGED <<winVars, snapVars, evalVars, concVars, svcVars, fetchIn,
                 fetchOut, scr, cancelled, clientGone, cfgIn>>

NextConfig == Parse

SpecConfig == InitConfig /\ [][NextConfig]_vars

\* ================================================================ claims
IsSuffix(a, b) ==
  /\ Len(a) <= Len(b)
  /\ a = SubSeq(b, Len(b) - Len(a) + 1, Len(b))

\* Non-decreasing timestamps, oldest first.
OldestFirst(s) ==
  \A i, j \in 1..Len(s) : i < j => s[i].Timestamp <= s[j].Timestamp

\* Every sample of s is older than t - wd.
AllExpired(s, t, wd) ==
  \A i \in 1..Len(s) : s[i].Timestamp < t - wd

\* C1 (as stated): when an Add has returned, every retained sample has
\* now - Timestamp < W, whatever the timestamps and their order.
C1_AllYoungerThanWindow ==
  lastOp = "Add" =>
    \A i \in 1..Len(samples) : now - samples[i].Timestamp < windowDuration

\* C1 (amended): when an Add has returned, the first retained sample has
\* now - Timestamp <= W, now being the clock value its eviction read; so
\* when the retained samples are oldest first, every one of them has
\* now - Timestamp <= W.
C1_HeadWithinWindow ==
  lastOp = "Add" =>
    /\ samples # <<>> => now - samples[1].Timestamp <= windowDuration
    /\ OldestFirst(samples) =>
         \A i \in 1..Len(samples) : now - samples[i].Timestamp <= windowDuration

\* An Add evicted part of its own batch and kept a sample of age exactly W.
C1_Witness ==
  /\ lastOp = "Add"
  /\ samples # <<>>
  /\ Len(samples) < Len(lastBatch)
  /\ now - samples[1].Timestamp = windowDuration

\* C5 (as stated): an Add whose samples are all older than now - W leaves
\* none of them in the window, whatever the window held: what is left is
\* what was held, less an evicted prefix.
C5_OldBatchNeverRetained ==
  [][(lastOp' = "Add" /\ lastBatch' # <<>>
        /\ AllExpired(lastBatch', now, windowDuration))
     => IsSuffix(samples', samples)]_vars

\* C5 (amended): an Add whose samples are all older than now - W leaves the
\* window empty when everything the window held was older than now - W too;
\* when the window held a sample that is not, the whole batch stays behind
\* it.
C5_OldBatchAfterExpired ==
  [][(lastOp' = "Add" /\ lastBatch' # <<>>
        /\ AllExpired(lastBatch', now, windowDuration))
     => IF AllExpired(samples, now, windowDuration)
        THEN samples' = <<>>
        ELSE /\ Len(samples') > Len(lastBatch')
             /\ IsSuffix(lastBatch', samples')
             /\ IsSuffix(samples', samples \o lastBatch')]_vars

\* An Add of two expired samples has returned and the window is empty.
C5_Witness ==
  /\ lastOp = "Add"
  /\ Len(lastBatch) = 2
  /\ AllExpired(lastBatch, now, windowDuration)
  /\ samples = <<>>

\* C6: a write through a slice Snapshot() returned, a truncation of it or an
\* append to it leaves the window's samples as they were.
C6_SnapshotIsIndependent ==
  [][lastOp' = "MutateSnapshot" => samples' = samples]_vars

\* A snapshot of a non-empty window was written through and now differs
\* from the window.
C6_Witness ==
  /\ lastOp = "MutateSnapshot"
  /\ samples # <<>>
  /\ Len(snap.data) = Len(samples)
  /\ snap.data # samples

\* C7: an Add leaves a suffix of (what was held, then its arguments in
\* argument order), and Snapshot() returns exactly what is held, in that
\* order.
C7_InsertionOrder ==
  [][/\ lastOp' = "Add" => IsSuffix(samples', samples \o lastBatch')
     /\ lastOp' = "Snapshot" => snap'.data = samples]_vars

\* After an Add that evicted, a snapshot shows two samples that are not
\* oldest first: insertion order, not timestamp order.
C7_Witness ==
  /\ snapFresh
  /\ Len(snap.data) = 2
  /\ ~OldestFirst(snap.data)
  /\ AllExpired(SubSeq(snap.data, 2, 2), now, windowDuration)

\* C8: with no Add in between, Len() is the number of elements Snapshot()
\* returned; both are 0 while no Add has been made.
C8_LenMatchesSnapshot ==
  /\ (snapFresh /\ lenFresh) => lenRes = Len(snap.data)
  /\ (lenFresh /\ ~everAdded) => lenRes = 0
  /\ (snapFresh /\ ~everAdded) => Len(snap.data) = 0

\* Len() and Snapshot() were both called on a window of two samples.
C8_Witness ==
  /\ snapFresh
  /\ lenFresh
  /\ lenRes = 2

\* Samples i..j of s are all at or above the threshold.
IsStretch(s, i, j, threshold) ==
  /\ i <= j
  /\ \A k \in i..j : s[k].Lag >= threshold

\* Some stretch of some partition's sorted samples has a span that stands
\* in relation rel ("eq", "geq", "gt") to the sustain duration.
SomeStretch(rel) ==
  \E p \in DOMAIN evOut.sorted :
    LET s == evOut.sorted[p] IN
      \E i, j \in 1..Len(s) :
        LET span == s[j].Timestamp - s[i].Timestamp IN
          /\ IsStretch(s, i, j, evIn.threshold)
          /\ CASE rel = "eq" -> span = evIn.sustainDuration
               [] rel = "geq" -> span >= evIn.sustainDuration
               [] rel = "gt" -> span > evIn.sustainDuration

\* C9: a stretch of one partition's samples whose span is exactly
\* sustainDuration makes the result persistent; when every stretch has a
\* smaller span, the result is not persistent.
C9_SustainBoundary ==
  evOut.returned =>
    /\ SomeStretch("eq") => evOut.Persistent
    /\ ~SomeStretch("geq") => ~evOut.Persistent

\* A call returned persistent on a stretch that spans a positive
\* sustainDuration exactly, no stretch spanning more.
C9_Witness ==
  /\ evOut.returned
  /\ evOut.Persistent
  /\ evIn.sustainDuration > 0
  /\ SomeStretch("eq")
  /\ ~SomeStretch("gt")

AllAtThreshold ==
  /\ evIn.samples # <<>>
  /\ \A i \in 1..Len(evIn.samples) : evIn.samples[i].Lag = evIn.threshold

\* The timestamps of s span at least d.
SpansAtLeast(s, d) ==
  \E i, j \in 1..Len(s) : s[j].Timestamp - s[i].Timestamp >= d

GapAt(s, k, threshold) ==
  /\ 1 < k /\ k < Len(s)
  /\ s[k].Lag < threshold
  /\ s[k - 1].Lag >= threshold
  /\ s[k + 1].Lag >= threshold

\* No partition other than p has a sample at or above the threshold.
OthersBelow(p) ==
  \A i \in 1..Len(evIn.samples) :
    evIn.samples[i].Partition # p => evIn.samples[i].Lag < evIn.threshold

\* A run of at-or-above-threshold samples of s that lies wholly on one side
\* of sample k spans at least the sustain duration.
RunBesideSpans(s, k) ==
  \E i, j \in 1..Len(s) :
    /\ IsStretch(s, i, j, evIn.threshold)
    /\ j < k \/ i > k
    /\ s[j].Timestamp - s[i].Timestamp >= evIn.sustainDuration

\* C11: when a below-threshold sample lies between two runs of
\* at-or-above-threshold samples of a partition (the only partition with
\* such samples), the result is persistent only if a run on one side of
\* that sample spans at least sustainDuration by itself.
C11_GapResetsStretch ==
  evOut.returned =>
    \A p \in DOMAIN evOut.sorted :
      \A k \in 1..Len(evOut.sorted[p]) :
        (GapAt(evOut.sorted[p], k, evIn.threshold) /\ OthersBelow(p)) =>
           (evOut.Persistent => RunBesideSpans(evOut.sorted[p], k))

\* A call returned not persistent on samples at or above the threshold that
\* span the sustain duration only across a below-threshold sample.
C11_Witness ==
  /\ evOut.returned
  /\ ~evOut.Persistent
  /\ evIn.sustainDuration > 0
  /\ \E p \in DOMAIN evOut.sorted :
       LET s == evOut.sorted[p] IN
         /\ Len(s) = 3
         /\ GapAt(s, 2, evIn.threshold)
         /\ s[3].Timestamp - s[1].Timestamp >= evIn.sustainDuration

\* The evaluation of partition p's samples alone, the sort coming out as it
\* did in the call made.
AloneResult(p) ==
  EvaluatePersistence(byPartition(evIn.samples, p), evIn.threshold,
                      evIn.sustainDuration,
                      [q \in {p} |-> evOut.sorted[p]])

\* C12: the result is persistent when the samples of some one partition,
\* evaluated alone, are persistent, and not persistent when those of no
\* partition are.
C12_AnyPartitionSuffices ==
  evOut.returned =>
    (evOut.Persistent <=>
       \E p \in PartitionsOf(evIn.samples) : AloneResult(p).Persistent)

\* A call on two partitions returned persistent for a positive sustain
\* duration, one partition alone being persistent and the other not.
C12_Witness ==
  /\ evOut.returned
  /\ evOut.Persistent
  /\ evIn.sustainDuration > 0
  /\ \E p, q \in PartitionsOf(evIn.samples) :
       /\ AloneResult(p).Persistent
       /\ ~AloneResult(q).Persistent

\* The lags of the samples of partition p that carry its largest timestamp.
LatestLags(in, p) ==
  LET ps == byPartition(in, p) IN
    {ps[i].Lag : i \in {i \in 1..Len(ps) :
                          \A j \in 1..Len(ps) :
                            ps[j].Timestamp <= ps[i].Timestamp}}

\* The sums of one such lag per partition of P.
RECURSIVE LatestLagSums(_, _)
LatestLagSums(in, P) ==
  IF P = {} THEN {0}
  ELSE LET p == CHOOSE q \in P : TRUE
       IN {l + rest : l \in LatestLags(in, p),
                      rest \in LatestLagSums(in, P \ {p})}

\* C13: totalCurrentLag is the sum, over the partitions of the input, of
\* the lag of a largest-timestamp sample of the partition, whether or not
\* the result is persistent.
C13_TotalFromLatest ==
  evOut.returned =>
    evOut.TotalCurrentLag
      \in LatestLagSums(evIn.samples, PartitionsOf(evIn.samples))

\* A call that was not persistent returned a positive total over two
\* partitions, the latest sample of one being neither its last in the input
\* nor of the largest lag.
C13_Witness ==
  /\ evOut.returned
  /\ ~evOut.Persistent
  /\ evOut.TotalCurrentLag > 0
  /\ Cardinality(PartitionsOf(evIn.samples)) = 2
  /\ \E p \in PartitionsOf(evIn.samples) :
       LET ps == byPartition(evIn.samples, p) IN
         /\ Len(ps) = 2
         /\ ps[1].Timestamp > ps[2].Timestamp
         /\ ps[1].Lag < ps[2].Lag

\* The window holds samples, and every one of them is older than the
\* window duration.
OnlyStaleSamples ==
  /\ samples # <<>>
  /\ \A i \in 1..Len(samples) :
       Before(samples[i].Timestamp, now - windowDuration)

\* C2: when the window holds only stale samples, IsActive returns false and
\* GetMetrics returns metricValue 0, without error.
C2_StaleWindowInactive ==
  OnlyStaleSamples =>
     /\ lastOp = "IsActive" => (resp.Result = FALSE /\ resp.err = "nil")
     /\ lastOp = "GetMetrics" =>
          (resp.MetricValues[1].MetricValue = 0 /\ resp.err = "nil")

\* C14: GetMetrics returns exactly one entry, named persistent_kafka_lag,
\* whose metricValue is the total current lag of the window's snapshot when
\* that snapshot evaluates as persistent and 0 otherwise; IsActive returns
\* that same persistent verdict.
C14_MetricFollowsVerdict ==
  /\ lastOp = "GetMetrics" =>
       \E r \in evaluate :
         /\ resp.err = "nil"
         /\ resp.MetricValues =
              <<[MetricName |-> "persistent_kafka_lag",
                 MetricValue |-> IF r.Persistent THEN r.TotalCurrentLag
                                 ELSE 0]>>
  /\ lastOp = "IsActive" =>
       \E r \in evaluate : resp.Result = r.Persistent

\* GetMetrics returned 0 for a window whose latest lags are positive but
\* not persistent.
C14_Witness ==
  /\ lastOp = "GetMetrics"
  /\ resp.MetricValues[1].MetricValue = 0
  /\ samples # <<>>
  /\ totalCurrentLag(samples) > 0

\* C15: on an empty window the evaluation is {persistent = false,
\* totalCurrentLag = 0}, IsActive returns false and GetMetrics returns
\* metricValue 0, each without error.
C15_EmptyWindowIdle ==
  samples = <<>> =>
    /\ \A r \in evaluate : ~r.Persistent /\ r.TotalCurrentLag = 0
    /\ lastOp = "IsActive" => (resp.Result = FALSE /\ resp.err = "nil")
    /\ lastOp = "GetMetrics" =>
         (resp.MetricValues[1].MetricValue = 0 /\ resp.err = "nil")

\* IsActive answered on a window left empty after the scraper's Add calls,
\* later than the window duration.
C15_Witness ==
  /\ samples = <<>>
  /\ everAdded
  /\ now > windowDuration
  /\ lastOp = "IsActive"
  /\ resp.Result = FALSE

\* C18: GetMetricSpec returns, whatever the window holds, exactly one entry
\* with metricName persistent_kafka_lag and targetSize the configured
\* lagThreshold, without error.
C18_SpecReturnsThreshold ==
  lastOp = "GetMetricSpec" =>
    resp = [rpc |-> "GetMetricSpec",
            MetricSpecs |-> <<[MetricName |-> "persistent_kafka_lag",
                               TargetSize |-> config.LagThreshold]>>,
            err |-> "nil"]

\* GetMetricSpec answered with the configured threshold of 2 on a window
\* holding samples.
C18_Witness ==
  /\ lastOp = "GetMetricSpec"
  /\ samples # <<>>
  /\ config.LagThreshold = 2
  /\ resp.MetricSpecs[1].TargetSize = 2

\* The steps of the RPC handlers.
RpcOps ==
  {"IsActive", "GetMetrics", "GetMetricSpec",
   "StreamOpen", "StreamSend", "StreamSendError", "StreamClose"}

\* C19: no step of IsActive, StreamIsActive, GetMetricSpec or GetMetrics
\* changes the window contents, a failed send included: the reads do not
\* evict, and only the scraper's Add changes the window.
C19_OnlyScraperMutates ==
  [][/\ lastOp' \in RpcOps => samples' = samples
     /\ samples' # samples => lastOp' = "Fetch"]_vars

\* A stream ended on a send error with the window still holding its
\* samples, all of them expired.
C19_Witness ==
  /\ lastOp = "StreamSendError"
  /\ OnlyStaleSamples

\* Every tick the handler of an open stream receives sends exactly one
\* message, the persistent verdict of the window as it stands then, and
\* nothing else sends.
EachReceivedTickSends ==
  /\ lastOp' = "StreamSend" =>
       /\ stream.open /\ stream.tick /\ ~stream'.tick
       /\ \E r \in evaluate : stream'.sent = Append(stream.sent, r.Persistent)
  /\ (stream'.sent # stream.sent /\ stream'.sent # <<>>) =>
       lastOp' = "StreamSend"

\* No sampling interval passes on an open stream while its previous tick
\* is still to be received.
NoTickDropped == (now' # now) => ~(stream.open /\ stream.tick)

\* C20 (as stated): while a stream is open every samplingInterval tick
\* produces exactly one sent message, the verdict of a fresh evaluation.
C20_EveryTickSends == [][EachReceivedTickSends /\ NoTickDropped]_vars

\* C20 (amended): while a stream is open every tick its handler receives
\* produces exactly one sent message, the verdict of a fresh evaluation,
\* equal to the previous one or not.
C20_EveryReceivedTickSends == [][EachReceivedTickSends]_vars

\* A stream has just sent the same verdict for the second time running.
C20_Witness ==
  /\ lastOp = "StreamSend"
  /\ Len(stream.sent) >= 2
  /\ stream.sent[Len(stream.sent)] = stream.sent[Len(stream.sent) - 1]

\* The verdicts reported are idle ones: IsActive false, metricValue 0.
ReportsIdle ==
  /\ lastOp = "IsActive" => resp.Result = FALSE
  /\ lastOp = "GetMetrics" => resp.MetricValues[1].MetricValue = 0

C17_DrainedBacklogIdles ==
  /\ (backlog = "drained") ~> [](ReportsIdle)
  /\ (backlog = "drained") ~> (lastOp = "IsActive" /\ resp.Result = FALSE)
  /\ (backlog = "drained") ~>
       (lastOp = "GetMetrics" /\ resp.MetricValues[1].MetricValue = 0)

\* IsActive returned false after the drain, on a window that still holds a
\* sample at or above the threshold.
C17_Witness ==
  /\ backlog = "drained"
  /\ lastOp = "IsActive"
  /\ resp.Result = FALSE
  /\ \E i \in 1..Len(samples) : samples[i].Lag >= config.LagThreshold

\* The samples a sequence holds, as a set.
Held(s) == {s[i] : i \in 1..Len(s)}

\* Every goroutine has made all its calls and none is in progress.
AllCallsComplete ==
  /\ \A g \in Adders : calls[g] = AddsPerAdder
  /\ \A g \in Goroutines : pc[g] = "idle"

\* Every sample passed to Add is still inside the window.
AllInsideWindow ==
  \A x \in contributed : ~Before(x.Timestamp, now - windowDuration)

\* C3: when NumAdders goroutines each make AddsPerAdder concurrent Add calls
\* of one sample whose timestamp stays inside the window, interleaved with a
\* goroutine calling Snapshot and Len, then once every call has completed
\* Len() is NumAdders * AddsPerAdder and the window holds each contributed
\* sample exactly once, under every interleaving.
C3_NoSampleLostOrDuplicated ==
  (AllCallsComplete /\ AllInsideWindow) =>
     /\ WindowLen(samples) = NumAdders * AddsPerAdder
     /\ Held(samples) = contributed
     /\ Cardinality(contributed) = NumAdders * AddsPerAdder

\* All calls complete, nothing expired, and the writers' samples interleaved
\* in the window while the reader saw an intermediate length.
C3_Witness ==
  /\ AllCallsComplete
  /\ AllInsideWindow
  /\ Len(samples) = NumAdders * AddsPerAdder
  /\ samples[1].Partition # samples[2].Partition
  /\ \E r \in Readers : out[r].len \in 1..(NumAdders * AddsPerAdder - 1)

\* C4: every Snapshot() taken while Add calls run concurrently returns
\* exactly the window contents as the last completed Add left them (or the
\* initial empty contents): never the samples of an Add that has appended
\* but not yet evicted.
C4_SnapshotSeesCompletedAdd ==
  [][\A r \in Readers :
       (pc[r] = "copy" /\ pc'[r] = "len") =>
          out'[r].snapshot = lastCommitted]_vars

\* A reader holds a non-empty snapshot taken between Adds, one completed Add
\* of which was evicted from it, while another Add stands between its
\* append and its eviction.
C4_Witness ==
  \E r \in Readers :
    /\ pc[r] = "len"
    /\ out[r].snapshot # <<>>
    /\ \E g \in Adders : pc[g] = "evict"
    /\ \E x \in contributed :
         /\ calls[x.Partition] > x.Lag
         /\ x \notin Held(out[r].snapshot)
         /\ Before(x.Timestamp, now - windowDuration)

\* C21: once the client has closed the stream or the shutdown signal has
\* been handled, the StreamIsActive handler sends no further message and
\* eventually returns.
C21_HandlerEndsOnCloseOrShutdown ==
  /\ [][(cancelled \/ clientGone) => stream'.sent = stream.sent]_vars
  /\ ((stream.open /\ (cancelled \/ clientGone)) ~> ~stream.open)

\* C22: when a send on the stream fails, the handler returns a non-nil
\* error and emits nothing more on that stream, and the window keeps its
\* samples.
C22_SendFailureEndsStream ==
  [][lastOp' = "StreamSendError" =>
       /\ resp'.rpc = "StreamIsActive"
       /\ resp'.err # "nil"
       /\ ~stream'.open
       /\ stream'.sent = stream.sent
       /\ samples' = samples]_vars

\* A send has failed on a stream that had sent before, over a window that
\* holds samples.
C22_Witness ==
  /\ lastOp = "StreamSendError"
  /\ resp.err = "error sending stream"
  /\ stream.sent # <<>>
  /\ samples # <<>>

\* C23: a scraper fetch whose FetchLag fails leaves the window's samples as
\* they were and uses up its tick, so that no fetch follows before the next
\* tick; the next tick gives the scraper a fetch to make again; and no RPC
\* returns an error for it: IsActive, GetMetrics and GetMetricSpec return a
\* nil error, a stream at most its own send error.
C23_FetchErrorSkipsTick ==
  [][/\ lastOp' = "FetchError" => (samples' = samples /\ ~tickPending')
     /\ ~tickPending => lastOp' \notin {"Fetch", "FetchError"}
     /\ lastOp' = "Tick" => tickPending'
     /\ resp'.rpc \in {"IsActive", "GetMetrics", "GetMetricSpec"}
          => resp'.err = "nil"
     /\ resp'.rpc = "StreamIsActive"
          => resp'.err \in {"nil", "error sending stream"}]_vars

\* A fetch has failed, after the first interval, over a window that holds
\* samples of an earlier fetch.
C23_Witness ==
  /\ lastOp = "FetchError"
  /\ now > 0
  /\ samples # <<>>
  /\ ~tickPending

\* C24: once the scraper's context has been cancelled, Run serves no further
\* tick: from its select it enters no fetch.
C24_NoTickServedAfterCancel ==
  [][(cancelled /\ scr.pc = "select") => scr'.pc # "fetching"]_vars

\* C25: ticks that fall due during a fetch are coalesced: a tick that is
\* pending when Run is back in its select is served at once, and no fetch
\* the loop enters begins in the interval in which the fetch before it
\* began, however many intervals that fetch spanned.
C25_TicksCoalesce ==
  /\ scr.kind = "tick" => scr.prev < scr.began
  /\ (scr.pc = "select" /\ tickPending) => ENABLED RunServeTick

\* A fetch spanned two intervals or more, and the one fetch that was entered
\* when it returned took the tick: none is left.
C25_Witness ==
  /\ scr.kind = "tick"
  /\ scr.pc = "fetching"
  /\ scr.began = scr.ended
  /\ scr.ended - scr.prev >= 2
  /\ ~tickPending
  /\ now = scr.began

\* C26 as stated: every fetch the loop enters for a tick follows the fetch
\* made on start, and when that fetch has succeeded the window holds its
\* samples until a fetch is entered for a tick.
C26_StartSamplesPresent ==
  /\ scr.kind = "tick" => scr.prev >= 0
  /\ (scr.kind = "start" /\ scr.pc = "select" /\ ~scr.failed)
       => samples = scr.batch

\* C26: every fetch the loop enters for a tick follows the fetch made on
\* start, and when that fetch has succeeded the window holds its samples
\* until a fetch is entered for a tick, unless the fetch took longer than
\* the window's duration: then Add has evicted them on arrival.
C26_StartSamplesAdded ==
  /\ scr.kind = "tick" => scr.prev >= 0
  /\ (scr.kind = "start" /\ scr.pc = "select" /\ ~scr.failed)
       => \/ samples = scr.batch
          \/ /\ samples = <<>>
             /\ scr.ended - scr.began > windowDuration

\* The fetch made on start has returned samples within the first interval,
\* they are in the window, and the first tick is due and not yet served.
C26_Witness ==
  /\ scr.kind = "start"
  /\ scr.pc = "select"
  /\ ~scr.failed
  /\ scr.batch # <<>>
  /\ samples = scr.batch
  /\ tickPending

\* Some request of the call, or some partition's entry in a response, fails.
AnyFailure(b) ==
  \/ b.metadata.err # "nil"
  \/ b.listOffsets.err # "nil"
  \/ b.coordinator # "nil"
  \/ b.offsetFetch.err # "nil"
  \/ /\ b.listOffsets.err = "nil"
     /\ \E p \in DOMAIN b.listOffsets.entries : b.listOffsets.entries[p].Error
  \/ /\ b.offsetFetch.err = "nil"
     /\ \E p \in DOMAIN b.offsetFetch.entries : b.offsetFetch.entries[p].Error

\* C27: FetchLag returns an error and no sample when any request or any
\* partition's entry fails, and nothing of that call is in the window;
\* otherwise it returns no error and a sample for every partition.
C27_ErrorOrCompleteResult ==
  fetchOut.returned =>
    IF AnyFailure(fetchIn.broker)
    THEN /\ fetchOut.err # "nil"
         /\ fetchOut.samples = <<>>
         /\ samples = <<>>
         /\ lastOp = "FetchError"
    ELSE /\ fetchOut.err = "nil"
         /\ Len(fetchOut.samples) = Len(fetchIn.broker.metadata.partitions)

\* Every request succeeded and one partition's committed-offset entry alone
\* failed: the call returned an error.
C27_Witness ==
  /\ fetchOut.returned
  /\ fetchOut.err = "committed offset error for partition"
  /\ \E p \in DOMAIN fetchIn.broker.offsetFetch.entries :
       ~fetchIn.broker.offsetFetch.entries[p].Error

\* C28: every sample FetchLag returns has Offset the committed offset the
\* broker reported, 0 in place of a negative one, EndOffset the end offset
\* reported, and Lag = max(0, EndOffset - Offset); so no Lag and no Offset
\* is negative, and a partition without a committed offset has
\* Lag = EndOffset.
C28_LagFromOffsets ==
  fetchOut.returned =>
    \A i \in 1..Len(fetchOut.samples) :
      LET x == fetchOut.samples[i]
          listed == fetchIn.broker.listOffsets.entries
          fetched == fetchIn.broker.offsetFetch.entries
      IN /\ x.Partition \in DOMAIN listed =>
              x.EndOffset = listed[x.Partition].Offset
         /\ x.Partition \in DOMAIN fetched =>
              LET reported == fetched[x.Partition].Offset IN
                /\ x.Offset = IF reported < 0 THEN 0 ELSE reported
                /\ reported < 0 => x.Lag = x.EndOffset
         /\ x.Lag = IF x.EndOffset - x.Offset > 0
                    THEN x.EndOffset - x.Offset ELSE 0
         /\ x.Lag >= 0
         /\ x.Offset >= 0

\* A call returned a sample for a partition without a committed offset and
\* with messages, and one for a partition committed past its end offset.
C28_Witness ==
  /\ fetchOut.returned
  /\ \E i, j \in 1..Len(fetchOut.samples) :
       /\ fetchOut.samples[i].Partition
            \in DOMAIN fetchIn.broker.offsetFetch.entries
       /\ fetchIn.broker.offsetFetch.entries[fetchOut.samples[i].Partition].Offset < 0
       /\ fetchOut.samples[i].Lag = 1
       /\ fetchOut.samples[j].Offset > fetchOut.samples[j].EndOffset
       /\ fetchOut.samples[j].Lag = 0

\* C29: a FetchLag that succeeds returns one sample for each partition of
\* the topic metadata, in metadata order, each with the time read when the
\* call was entered; what the window holds of them after the scraper's Add
\* is in that order.
C29_OneSamplePerPartitionInOrder ==
  (fetchOut.returned /\ fetchOut.err = "nil") =>
    LET partitions == fetchIn.broker.metadata.partitions IN
      /\ Len(fetchOut.samples) = Len(partitions)
      /\ \A i \in 1..Len(partitions) :
           /\ fetchOut.samples[i].Partition = partitions[i]
           /\ fetchOut.samples[i].Timestamp = fetchIn.now
      /\ IsSuffix(samples, fetchOut.samples)

\* A call that the clock advanced during returned the samples of
\* partitions 1 and 0, in that order, and the window holds both.
C29_Witness ==
  /\ fetchOut.returned
  /\ fetchOut.err = "nil"
  /\ fetchIn.broker.metadata.partitions = <<1, 0>>
  /\ now > fetchIn.now
  /\ samples = fetchOut.samples

\* C30: two calls of EvaluatePersistence with the same samples, threshold
\* and sustainDuration return the same Persistent and the same
\* TotalCurrentLag, and no call changes the samples it was given.
C30_SameInputsSameResult ==
  /\ []((evOut.returned /\ evOut.second.returned) =>
          /\ evOut.second.Persistent = evOut.first.Persistent
          /\ evOut.second.TotalCurrentLag = evOut.first.TotalCurrentLag)
  /\ [][evIn' = evIn]_vars

\* Both calls returned persistent lag for samples of two partitions of
\* which one alone has it, having met the partitions in different orders.
C30_Witness ==
  /\ evOut.returned
  /\ evOut.second.returned
  /\ evOut.first.order # evOut.second.order
  /\ evOut.first.Persistent
  /\ \E p \in PartitionsOf(evIn.samples) :
       ~hasPersistentLag(evOut.first.sorted[p], evIn.threshold,
                         evIn.sustainDuration)


\* ---------------------------------------------------------------- C31..C34
Accepted == cfgOut.returned /\ cfgOut.err = "nil"

\* C31: configuration construction fails, and returns no config, when the
\* sustain duration or the sampling interval resolves to zero or to a
\* negative number of seconds: every accepted config has both positive.
C31_DurationsPositive ==
  Accepted => /\ cfgOut.cfg.SustainDuration > 0
              /\ cfgOut.cfg.SamplingInterval > 0

\* C32: every accepted config has sustainDuration <= windowSize x
\* samplingInterval. Stated for the configs whose two durations are
\* positive, so that a violation is one of this rule alone.
C32_SustainWithinWindow ==
  (/\ Accepted
   /\ cfgOut.cfg.SustainDuration > 0
   /\ cfgOut.cfg.SamplingInterval > 0)
    => cfgOut.cfg.SustainDuration
         <= cfgOut.cfg.WindowSize * cfgOut.cfg.SamplingInterval

\* An option is supplied by a source that gives it a non-empty value.
Supplied(m, e) == (m.ok /\ m.v # "") \/ e # ""

TopicSupplied == Supplied(cfgIn.metadata.topic, cfgIn.env.KAFKA_TOPIC)

GroupSupplied ==
  Supplied(cfgIn.metadata.consumerGroup, cfgIn.env.KAFKA_GROUP_ID)

IsNumeral(v) == \E d \in Numerals : d[1] = v

\* The value the numeric option takes, if it takes one, is a number.
NumericParses(m, e) ==
  IF m.ok THEN IsNumeral(m.v) ELSE e = "" \/ IsNumeral(e)

AllNumericsParse ==
  /\ NumericParses(cfgIn.metadata.lagThreshold, cfgIn.env.LAG_THRESHOLD)
  /\ NumericParses(cfgIn.metadata.sustainSeconds, cfgIn.env.SUSTAIN_SECONDS)
  /\ NumericParses(cfgIn.metadata.samplingInterval,
                   cfgIn.env.SAMPLING_INTERVAL)
  /\ NumericParses(cfgIn.metadata.windowSize, cfgIn.env.WINDOW_SIZE)

RequiredMissingFails ==
  /\ ~TopicSupplied => cfgOut = ConfigError("topic is required")
  /\ (TopicSupplied /\ ~GroupSupplied)
       => cfgOut = ConfigError("consumerGroup is required")

\* C33 as stated: construction fails with 'topic is required' /
\* 'consumerGroup is required' and no config when neither source supplies
\* the field, and succeeds when both fields are supplied.
C33_RequiredFieldsDecide ==
  cfgOut.returned =>
    /\ RequiredMissingFails
    /\ (TopicSupplied /\ GroupSupplied) => cfgOut.err = "nil"

\* C33, amended: construction fails with 'topic is required' /
\* 'consumerGroup is required' and no config when neither source supplies
\* the field; when both are supplied it fails with neither of these errors,
\* and it succeeds, with the supplied topic and group, if in addition every
\* numeric option that is given parses.
C33_RequiredFieldsChecked ==
  cfgOut.returned =>
    /\ RequiredMissingFails
    /\ (TopicSupplied /\ GroupSupplied) =>
         /\ cfgOut.err \notin {"topic is required",
                               "consumerGroup is required"}
         /\ AllNumericsParse =>
              /\ cfgOut.err = "nil"
              /\ cfgOut.cfg.Topic # ""
              /\ cfgOut.cfg.ConsumerGroup # ""

\* The topic comes from the environment past an empty metadata value, the
\* group from the metadata, and the config is accepted.
C33_Witness ==
  /\ Accepted
  /\ cfgIn.metadata.topic = InMap("")
  /\ cfgOut.cfg.Topic = "env-orders"
  /\ cfgOut.cfg.ConsumerGroup = "group"

\* One rule of precedence for every option: a source hits when the key is
\* there (keyPresent), or when its value is not empty (~keyPresent).
Hit(m, keyPresent) == IF keyPresent THEN m.ok ELSE m.ok /\ m.v # ""

UniformString(m, e, defaultVal, keyPresent) ==
  IF Hit(m, keyPresent) THEN m.v
  ELSE IF e # "" THEN e
  ELSE defaultVal

UniformInt(m, e, defaultVal, mErr, eErr, keyPresent) ==
  IF Hit(m, keyPresent)
  THEN IF IsNumeral(m.v) THEN ParseInt(m.v) ELSE [n |-> 0, err |-> mErr]
  ELSE IF e # ""
  THEN IF IsNumeral(e) THEN ParseInt(e) ELSE [n |-> 0, err |-> eErr]
  ELSE [n |-> defaultVal, err |-> "nil"]

\* The outcome of construction when every option follows the one rule.
UniformOutcome(metadata, env, keyPresent) ==
  LET BootstrapServers ==
        UniformString(metadata.bootstrapServers, env.KAFKA_BROKERS,
                      "localhost:9092", keyPresent)
      Topic == UniformString(metadata.topic, env.KAFKA_TOPIC, "", keyPresent)
      ConsumerGroup ==
        UniformString(metadata.consumerGroup, env.KAFKA_GROUP_ID, "",
                      keyPresent)
      LagThreshold ==
        UniformInt(metadata.lagThreshold, env.LAG_THRESHOLD, 500,
                   "invalid lagThreshold", "invalid LAG_THRESHOLD",
                   keyPresent)
      SustainSeconds ==
        UniformInt(metadata.sustainSeconds, env.SUSTAIN_SECONDS, 120,
                   "invalid sustainSeconds", "invalid SUSTAIN_SECONDS",
                   keyPresent)
      SamplingSeconds ==
        UniformInt(metadata.samplingInterval, env.SAMPLING_INTERVAL, 10,
                   "invalid samplingInterval", "invalid SAMPLING_INTERVAL",
                   keyPresent)
      WindowSize ==
        UniformInt(metadata.windowSize, env.WINDOW_SIZE, 30,
                   "invalid windowSize", "invalid WINDOW_SIZE", keyPresent)
  IN IF Topic = "" THEN ConfigError("topic is required")
     ELSE IF ConsumerGroup = "" THEN ConfigError("consumerGroup is required")
     ELSE IF LagThreshold.err # "nil" THEN ConfigError(LagThreshold.err)
     ELSE IF SustainSeconds.err # "nil" THEN ConfigError(SustainSeconds.err)
     ELSE IF SamplingSeconds.err # "nil" THEN ConfigError(SamplingSeconds.err)
     ELSE IF WindowSize.err # "nil" THEN ConfigError(WindowSize.err)
     ELSE [returned |-> TRUE, err |-> "nil",
           cfg |-> [BootstrapServers |-> BootstrapServers,
                    Topic |-> Topic,
                    ConsumerGroup |-> ConsumerGroup,
                    LagThreshold |-> LagThreshold.n,
                    SustainDuration |-> SustainSeconds.n,
                    SamplingInterval |-> SamplingSeconds.n,
                    WindowSize |-> WindowSize.n]]

\* C34: each of the seven options is resolved by first hit wins, the
\* metadata, then the environment variable, then the default, by the same
\* rule for string and numeric options: the outcome of construction is the
\* one that rule gives for every option, whether a metadata key with an
\* empty value counts as a hit or does not.
C34_OneRuleForAllOptions ==
  cfgOut.returned =>
    \/ cfgOut = UniformOutcome(cfgIn.metadata, cfgIn.env, TRUE)
    \/ cfgOut = UniformOutcome(cfgIn.metadata, cfgIn.env, FALSE)

Reorderings(in) ==
  LET n == Len(in)
      perms == {f \in [1..n -> 1..n] : \A i, j \in 1..n : i # j => f[i] # f[j]}
  IN {[i \in 1..n |-> in[f[i]]] : f \in perms}

\* Every evaluation of every permutation of the first call's input gives
\* that call's persistent and totalCurrentLag.
SameForEveryOrder ==
  \A in \in Reorderings(evIn.samples) :
    \A sorted \in SortChoices(in) :
      LET r == EvaluatePersistence(in, evIn.threshold, evIn.sustainDuration,
                                   sorted)
      IN /\ r.Persistent = evOut.first.Persistent
         /\ r.TotalCurrentLag = evOut.first.TotalCurrentLag

\* Samples of one partition that share a timestamp have the same lag.
TiesAgree(in) ==
  \A i, j \in 1..Len(in) :
    (in[i].Partition = in[j].Partition /\ in[i].Timestamp = in[j].Timestamp)
      => in[i].Lag = in[j].Lag

\* C36 as stated: EvaluatePersistence returns the same persistent and the
\* same totalCurrentLag for any two sequences that are permutations of each
\* other, those in which samples of one partition share a timestamp
\* included.
C36_OrderIndependent == evOut.returned => SameForEveryOrder

\* C36, amended: EvaluatePersistence returns the same persistent and the
\* same totalCurrentLag for any two sequences that are permutations of each
\* other in which samples of one partition that share a timestamp have the
\* same lag.
C36_OrderIndependentWithoutTies ==
  (evOut.returned /\ TiesAgree(evIn.samples)) => SameForEveryOrder

\* Three samples of one partition given newest first, a stretch among them
\* that spans the sustain duration.
C36_Witness ==
  /\ evOut.returned
  /\ TiesAgree(evIn.samples)
  /\ Len(evIn.samples) = 3
  /\ \A i \in 1..3 : evIn.samples[i].Partition = 0
  /\ evIn.samples[1].Timestamp > evIn.samples[2].Timestamp
  /\ evIn.samples[2].Timestamp > evIn.samples[3].Timestamp
  /\ evIn.sustainDuration = 1
  /\ evOut.first.Persistent

\* ---------------------------------------------------------------- C37
\* The samples the window held before the last batch was added.
EarlierTicks == SubSeq(samples, 1, Len(samples) - Len(lastBatch))

\* C37: with the scraper the only writer, in every reachable state the
\* window's samples are oldest first; the samples of a tick are after those
\* of every earlier tick, strictly; and the eviction of an Add leaves no
\* expired sample in the window, behind a retained one or anywhere.
C37_OldestFirstAcrossTicks ==
  /\ OldestFirst(samples)
  /\ lastOp = "Fetch" =>
       /\ \A i \in 1..Len(samples) :
            ~Before(samples[i].Timestamp, now - windowDuration)
       /\ samples # <<>> =>
            /\ Len(lastBatch) <= Len(samples)
            /\ SubSeq(samples, Len(EarlierTicks) + 1, Len(samples)) = lastBatch
            /\ \A i \in 1..Len(EarlierTicks), j \in 1..Len(lastBatch) :
                 Before(EarlierTicks[i].Timestamp, lastBatch[j].Timestamp)

\* An Add after which the window holds two ticks of two samples each, the
\* tick of the start evicted or never added.
C37_Witness ==
  /\ lastOp = "Fetch"
  /\ now > windowDuration
  /\ Len(samples) = 4
  /\ Len(lastBatch) = 2
  /\ samples[1].Timestamp > 0
  /\ samples[1].Timestamp = samples[2].Timestamp
  /\ samples[2].Timestamp < samples[3].Timestamp

\* ---------------------------------------------------------------- C38
\* Some partition has, anywhere among the samples, two samples at least the
\* sustain duration apart with every sample of the partition from the one to
\* the other at or above the threshold.
QualifyingStretch(in) ==
  \E i, j \in 1..Len(in) :
    /\ in[i].Partition = in[j].Partition
    /\ in[j].Timestamp - in[i].Timestamp >= config.SustainDuration
    /\ \A k \in 1..Len(in) :
         (/\ in[k].Partition = in[i].Partition
          /\ in[i].Timestamp <= in[k].Timestamp
          /\ in[k].Timestamp <= in[j].Timestamp)
           => in[k].Lag >= config.LagThreshold

\* The latest sample of every partition is below the threshold, and so is
\* their sum.
LagHasCleared ==
  /\ samples # <<>>
  /\ \A p \in PartitionsOf(samples) :
       latestByPartition(samples, p).Lag < config.LagThreshold
  /\ totalCurrentLag(samples) < config.LagThreshold

\* C38: persistent is true whenever some partition has a qualifying stretch
\* anywhere among the samples, ended or not, so IsActive answers true, and
\* GetMetrics reports the total current lag, for as long as the window
\* holds such a stretch, whatever the latest samples are; without one
\* IsActive answers false.
C38_EndedStretchStillCounts ==
  /\ lastOp = "IsActive" => resp.Result = QualifyingStretch(samples)
  /\ (lastOp = "GetMetrics" /\ QualifyingStretch(samples)) =>
       resp.MetricValues[1].MetricValue = totalCurrentLag(samples)

\* IsActive answers true after the lag has cleared on every partition.
C38_Witness ==
  /\ lastOp = "IsActive"
  /\ resp.Result
  /\ LagHasCleared

\* ---------------------------------------------------------------- C39
SomeSampleAtThreshold ==
  \E i \in 1..Len(evIn.samples) : evIn.samples[i].Lag >= evIn.threshold

\* C39: with a sustain duration of zero or less, persistent is true as soon
\* as the input has one sample with lag at or above the threshold, and false
\* only if every sample is below it.
C39_NoSustainOneSampleSuffices ==
  (evOut.returned /\ evIn.sustainDuration <= 0) =>
    evOut.Persistent = SomeSampleAtThreshold

\* A negative sustain duration, one sample at the threshold between two
\* samples of its partition below it.
C39_Witness ==
  /\ evOut.returned
  /\ evIn.sustainDuration < 0
  /\ Len(evIn.samples) = 3
  /\ \A i \in 1..3 : evIn.samples[i].Partition = 0
  /\ \A i \in 1..3 : evIn.samples[i].Timestamp = i - 1
  /\ evIn.samples[1].Lag < evIn.threshold
  /\ evIn.samples[2].Lag = evIn.threshold
  /\ evIn.samples[3].Lag < evIn.threshold
  /\ evOut.Persistent

\* ---------------------------------------------------------------- C40
\* C40: when a response has no entry for a partition the topic metadata
\* listed, and nothing fails, FetchLag returns no error and a sample for
\* that partition with 0 for the missing value: EndOffset 0 and Lag 0
\* without an end offset, Offset 0 and Lag = EndOffset without a committed
\* offset.
C40_OmittedPartitionReadAsZero ==
  (fetchOut.returned /\ ~AnyFailure(fetchIn.broker)) =>
    LET partitions == fetchIn.broker.metadata.partitions
        listed == DOMAIN fetchIn.broker.listOffsets.entries
        fetched == DOMAIN fetchIn.broker.offsetFetch.entries
    IN /\ fetchOut.err = "nil"
       /\ Len(fetchOut.samples) = Len(partitions)
       /\ \A i \in 1..Len(partitions) :
            LET x == fetchOut.samples[i] IN
              /\ x.Partition = partitions[i]
              /\ partitions[i] \notin listed =>
                   (x.EndOffset = 0 /\ x.Lag = 0)
              /\ partitions[i] \notin fetched =>
                   (x.Offset = 0 /\ x.Lag = x.EndOffset)

\* A call returned without error, the ListOffsets response having had no
\* entry for the first partition, committed at 1, and the OffsetFetch
\* response none for the second, whose end offset is 1.
C40_Witness ==
  /\ fetchOut.returned
  /\ fetchOut.err = "nil"
  /\ Len(fetchOut.samples) = 2
  /\ fetchOut.samples[1].Partition
       \notin DOMAIN fetchIn.broker.listOffsets.entries
  /\ fetchOut.samples[1].Offset = 1
  /\ fetchOut.samples[1].Lag = 0
  /\ fetchOut.samples[2].Partition
       \notin DOMAIN fetchIn.broker.offsetFetch.entries
  /\ fetchOut.samples[2].EndOffset = 1
  /\ fetchOut.samples[2].Lag = 1

====
